---------------------------- MODULE Spec2Model ----------------------------
(***************************************************************************)
(* fireflow: the per-calcjob process engine (src/src/fireflow/process.py)  *)
(* over the entity store session (src/src/fireflow/storage.py).            *)
(*                                                                         *)
(* db   : the committed Processing rows (what a new session would read).   *)
(* mem  : the Processing objects held by the storage session of the        *)
(*        running engine invocation (attribute values in memory).          *)
(* pc   : the position of each job's run_calcjob coroutine.                *)
(* cur  : the coroutine that holds the event loop (0: the loop is free).   *)
(***************************************************************************)
EXTENDS Integers, Sequences, FiniteSets, TLC

\* ------------------------------------------------------------------ bounds
\* Crashes of the engine and replays by the caller are explored until the
\* facade's submit has been called this many times in all.
MaxSubmits == 2

\* The stored calcjobs (pk of the Processing row), in pk order.
Procs == {1, 2}

\* --------------------------------------------------------- nullable values
NULL == <<>>
Some(x) == <<x>>

\* -------------------------------------------------------- program constants
Steps == <<"created", "uploading", "submitting", "running", "retrieving", "finalised">>
States == {"playing", "paused", "finished", "excepted"}

\* Position of a step in the chain created -> ... -> finalised (1..6).
Rank(s) ==
  CASE s = "created" -> 1
    [] s = "uploading" -> 2
    [] s = "submitting" -> 3
    [] s = "running" -> 4
    [] s = "retrieving" -> 5
    [] s = "finalised" -> 6

\* upload_paths entries (code's entries, then the calcjob's) of each job, by
\* what copy_to_remote does with them: "dir" (key None), "small" (size <=
\* small_file_size_mb MiB), "large" (bigger).
Inputs(p) == IF p = 1 THEN <<"small">> ELSE <<"dir", "large">>

\* What the download globs of each job match on the remote, in vglob order:
\* "script" (job.sh), "symlink", "dir", "small" and "big" regular files.
Outputs(p) == IF p = 1 THEN <<"script", "dir", "small">> ELSE <<"symlink", "small", "big">>

\* Exceptions a step can raise: type name and message.
TransportError == [kind |-> "FirecrestException", msg |-> "request failed"]
BigFileError == [kind |-> "NotImplementedError", msg |-> "big file download"]
ChecksumError == [kind |-> "RuntimeError", msg |-> "checksum mismatch for downloaded file"]

TimeoutError == [kind |-> "RuntimeError", msg |-> "timeout waiting for calcjob to finish"]

\* The `timeout` of poll_until_finished: run_step passes none, and the
\* default is None.
PollTimeout == NULL

\* The SHA-256 the remote reports for output i of job p (the two jobs write
\* the same small file, so its blob is shared in the object store).
Checksum(p, i) == IF Outputs(p)[i] = "small" THEN 7 ELSE 9
\* The key of a download whose bytes differ from the remote file.
CorruptKey == 0

VARIABLES
  db,            \* committed Processing rows
  mem,           \* Processing objects of the engine's storage session
  pc,            \* position of each job's run_calcjob coroutine
  cur,           \* coroutine holding the event loop, 0 when the loop is free
  engine,        \* "stopped" or "running" (inside asyncio.run)
  idx,           \* loop position in copy_to_remote / copy_from_remote
  paths,         \* the local dict `paths` of copy_from_remote
  handle,        \* in_progress flag of the job's external-upload handle
  sched,         \* scheduler state of the job last submitted for the calcjob
  nsubmit,       \* number of calls of the facade's submit for the calcjob
  store,         \* keys of the object store
  lastPoll,      \* job id passed to the last poll of this invocation
  runCalls,      \* step actions that made a remote call in this invocation
  callAfterExc,  \* a remote call was made after the exception was recorded
  raisedAt,      \* the step whose action raised in this invocation, and what
  startRow,      \* the row each task was started on
  completed      \* step actions that have completed for the calcjob, ever

\* The transfers of one calcjob in detail (copy_to_remote, copy_from_remote):
\* every call of the facade is logged.
VARIABLES
  calc,          \* the calcjob: its client's threshold, upload paths, matches
  proc,          \* the Processing object of the calcjob
  xpc,           \* position of the calcjob's coroutine
  xi,            \* loop position in copy_to_remote / copy_from_remote
  calls,         \* the calls of the facade made so far, in order
  remote,        \* content of the remote job folder, by relative path
  up_obj,        \* the external-upload handle of copy_to_remote
  ostore,        \* keys of the object store
  xpaths,        \* the local dict `paths` of copy_from_remote
  checksum       \* the local `checksum` of copy_from_remote

\* The object store (object_store.py) used by one client, call by call.
VARIABLES
  impl,          \* "memory" (InMemoryObjectStore) or "file" (FileObjectStore)
  files,         \* the dict `_store`, or the files of the store's directory
  temps,         \* the temporary files of add_from_io
  call,          \* the call in progress
  spc,           \* position in the call in progress
  stream,        \* what is left to read of the stream given to add_from_io
  hasher,        \* the bytes the hasher of add_from_io has been updated with
  last,          \* the last call that returned, and what it returned
  before,        \* the store when the last add was called
  added,         \* the adds that have returned: content given, key returned
  nadds          \* number of adds called

\* The on-disk object store used by two tasks at once, step by step, with
\* failures and crashes.
VARIABLES
  root,          \* the files of the store's directory: name -> content
  tmpdir,        \* the files of the temporary directory: name -> content
  task           \* each task's call: arguments, position, locals, outcome

\* The entity store: one session on one database, and the object keys that the
\* ingestion of a batch checks.
VARIABLES
  committed,     \* the rows of the database that are committed
  session,       \* the rows as the session's open transaction sees them
  held,          \* the entity that the caller holds a reference to
  okeys,         \* the keys of the object store
  outcome        \* what the last call did: its arguments and what it raised

\* The filters of the command line on the table of clients.
VARIABLES
  ftable,        \* the rows of the table: pk -> label
  fout           \* the filter string given, the last query and what it returned

\* The two object stores side by side, given the same calls.
VARIABLES
  pstore,        \* the content of each store: key -> bytes
  writer,        \* the writer of each store (open_for_write)
  pobs           \* the last call, and what it returned or raised on each

engineVars == <<db, mem, pc, cur, engine, idx, paths, handle, sched, nsubmit, store,
                lastPoll, runCalls, callAfterExc, raisedAt, startRow, completed>>

xferVars == <<calc, proc, xpc, xi, calls, remote, up_obj, ostore, xpaths, checksum>>

storeVars == <<impl, files, temps, call, spc, stream, hasher, last, before, added, nadds>>

diskVars == <<root, tmpdir, task>>

dbVars == <<committed, session, held, okeys, outcome>>

filterVars == <<ftable, fout>>

pairVars == <<pstore, writer, pobs>>

vars == <<engineVars, xferVars, storeVars, diskVars, dbVars, filterVars, pairVars>>

\* What the engine of several calcjobs leaves alone.
notEngine == <<xferVars, storeVars, diskVars, dbVars, filterVars, pairVars>>

\* What the transfers of one calcjob leave alone.
notXfer == <<engineVars, storeVars, diskVars, dbVars, filterVars, pairVars>>

\* What the calls of the object store leave alone.
notStore == <<engineVars, xferVars, diskVars, dbVars, filterVars, pairVars>>

\* What the tasks on the on-disk store leave alone.
notDisk == <<engineVars, xferVars, storeVars, dbVars, filterVars, pairVars>>

\* What the calls of the entity store leave alone.
notDb == <<engineVars, xferVars, storeVars, diskVars, filterVars, pairVars>>

\* What the filtered queries leave alone.
notFilter == <<engineVars, xferVars, storeVars, diskVars, dbVars, pairVars>>

\* What the calls on the two stores leave alone.
notPair == <<engineVars, xferVars, storeVars, diskVars, dbVars, filterVars>>

ghost == <<lastPoll, runCalls, callAfterExc, raisedAt, startRow, completed>>

\* The detailed transfers are not running.
XferIdle ==
  /\ calc = NULL /\ proc = NULL /\ xpc = "off" /\ xi = 0 /\ calls = <<>>
  /\ remote = NULL /\ up_obj = NULL /\ ostore = {} /\ xpaths = {}
  /\ checksum = NULL

\* No call of the object store is being followed.
StoreIdle ==
  /\ impl = "none" /\ files = <<>> /\ temps = <<>> /\ call = NULL /\ spc = "off"
  /\ stream = <<>> /\ hasher = <<>> /\ last = NULL /\ before = <<>>
  /\ added = {} /\ nadds = 0

\* No task on the on-disk store is being followed.
DiskIdle == root = <<>> /\ tmpdir = <<>> /\ task = <<>>

\* No call of the entity store is being followed.
DbIdle ==
  /\ committed = <<>> /\ session = <<>> /\ held = <<>> /\ okeys = {}
  /\ outcome = <<>>

\* No filtered query is being followed.
FilterIdle == ftable = <<>> /\ fout = <<>>

\* No call on the two stores is being followed.
PairIdle == pstore = <<>> /\ writer = <<>> /\ pobs = <<>>

\* ---------------------------------------------------------------- rows
\* A new Processing row: step created, state playing, nothing else set.
NewRow == [step |-> "created", state |-> "playing", exception |-> NULL,
           job_id |-> NULL, retrieved_paths |-> {}]

Init ==
  /\ db \in [Procs -> {NewRow, [NewRow EXCEPT !.state = "paused"]}]
  /\ mem = db
  /\ pc = [p \in Procs |-> "idle"]
  /\ cur = 0
  /\ engine = "stopped"
  /\ idx = [p \in Procs |-> 0]
  /\ paths = [p \in Procs |-> {}]
  /\ handle = [p \in Procs |-> "none"]
  /\ sched = [p \in Procs |-> "none"]
  /\ nsubmit = [p \in Procs |-> 0]
  /\ store = {}
  /\ lastPoll = [p \in Procs |-> NULL]
  /\ runCalls = [p \in Procs |-> {}]
  /\ callAfterExc = [p \in Procs |-> FALSE]
  /\ raisedAt = [p \in Procs |-> NULL]
  /\ startRow = db
  /\ completed = [p \in Procs |-> {}]
  /\ XferIdle
  /\ StoreIdle
  /\ DiskIdle
  /\ DbIdle
  /\ FilterIdle
  /\ PairIdle

\* ------------------------------------------------------------ storage.py
\* iter_rows with a filter on the step instead of the state: every row that
\* is not finalised is selected, whatever its state.
IterRowsUnfinished(rows, limit) ==
  LET match == {p \in Procs : rows[p].step # "finalised"}
  IN  IF limit = 0 THEN match
      ELSE {p \in match : Cardinality({q \in match : q < p}) < limit}

\* iter_rows that cuts to the first page before it filters: the first `limit`
\* rows by pk, and of those the ones that satisfy the filter.
IterRowsPageFirst(rows, limit) ==
  LET match == {p \in Procs : rows[p].state = "playing"}
  IN  IF limit = 0 THEN match
      ELSE {p \in match : Cardinality({q \in Procs : q < p}) < limit}

\* iter_rows(Processing, page_size=limit, where=[state == "playing"]):
\* the rows that satisfy the filter, ordered by pk, cut to the first page.
\* limit 0 stands for None (no page size).
IterRows(rows, limit) ==
  LET match == {p \in Procs : rows[p].state = "playing"}
  IN  IF limit = 0 THEN match
      ELSE {p \in match : Cardinality({q \in match : q < p}) < limit}

\* _save_to_db that flushes without committing: the committed rows stay.
SaveToDbLost(rows, p) == db

\* _update_row -> _save_to_db: session.add(row) and session.commit(). The
\* commit flushes every object of the session that has pending changes.
SaveToDb(rows, p) == [q \in Procs |-> rows[q]]

\* ------------------------------------------------------------ process.py
\* The exception string without the type name: f"{exc}".
ExcStrNoKind(exc) == exc.msg

\* f"{type(exc).__name__}: {exc}"
ExcStr(exc) == exc.kind \o ": " \o exc.msg

\* An except branch that also sends the process back to its first step.
ExceptedRestarts(row, exc) ==
  [row EXCEPT !.state = "excepted", !.exception = Some(ExcStr(exc)), !.step = "created"]

\* The except branch without `process.exception = exc_str`.
ExceptedNoMessage(row, exc) == [row EXCEPT !.state = "excepted"]

\* run_calcjob, the except branch: state and exception are set.
Excepted(row, exc) == [row EXCEPT !.state = "excepted", !.exception = Some(ExcStr(exc))]

\* run_calcjob, after the loop: a finalised process becomes finished.
Finished(row) == IF row.step = "finalised" THEN [row EXCEPT !.state = "finished"] ELSE row

\* run_step assigning retrieving after submit_on_remote.
StepAfterSkipsPoll(step) ==
  CASE step = "uploading" -> "submitting"
    [] step = "submitting" -> "retrieving"
    [] step = "running" -> "retrieving"
    [] step = "retrieving" -> "finalised"

\* run_step not assigning finalised after copy_from_remote.
StepAfterNeverFinal(step) ==
  CASE step = "uploading" -> "submitting"
    [] step = "submitting" -> "running"
    [] step = "running" -> "retrieving"
    [] step = "retrieving" -> "retrieving"

\* run_step: the step assigned when the action of `step` has returned.
StepAfter(step) ==
  CASE step = "uploading" -> "submitting"
    [] step = "submitting" -> "running"
    [] step = "running" -> "retrieving"
    [] step = "retrieving" -> "finalised"

\* run_step that starts every call at the upload.
EnterStepRestart(step) == "uploading"

\* run_step: the first `if` (created falls through to uploading).
EnterStep(step) == IF step = "created" THEN "uploading" ELSE step

\* run_step: the coroutine called for a step (the if/elif chain).
Dispatch(step) ==
  CASE step = "uploading" -> "up_script"
    [] step = "submitting" -> "submit"
    [] step = "running" -> "poll"
    [] step = "retrieving" -> "retrieve"
    [] OTHER -> "unknown"

\* The id the scheduler gives to the n-th job submitted for calcjob p.
JobId(p, n) == 10 * p + n

\* submit_on_remote that drops the result of client.submit.
SubmittedUnrecorded(row, id) == row

\* submit_on_remote line 191: calc.process.job_id = result["jobid"].
Submitted(row, id) == [row EXCEPT !.job_id = Some(id)]

\* Calls of the facade's submit made so far, over all calcjobs.
RECURSIVE SubmitsOf(_, _)
SubmitsOf(n, S) ==
  IF S = {} THEN 0
  ELSE LET p == CHOOSE q \in S : TRUE IN n[p] + SubmitsOf(n, S \ {p})

\* ----------------------------------------------------- the event loop
\* A coroutine runs when the loop is free or when it has not yielded since
\* its last operation; `yield` is an await that suspends (reliquish, sleep,
\* the aiohttp POST).
Holds(p) == engine = "running" /\ cur \in {0, p}
Goto(p, l, yield) ==
  /\ pc' = [pc EXCEPT ![p] = l]
  /\ cur' = IF yield THEN 0 ELSE p

\* reliquish() without its await: the coroutine keeps the loop.
ReliquishNot(p) == p

\* reliquish(): `await asyncio.sleep(0)`. The coroutine is suspended and put
\* at the back of the loop's ready queue: the loop is free (0) when it
\* returns to its queue.
Reliquish(p) == 0

\* The coroutine goes on at l after `await reliquish()`.
Relinquish(p, l) ==
  /\ pc' = [pc EXCEPT ![p] = l]
  /\ cur' = Reliquish(p)

\* Bookkeeping of a call of the facade made by the action `a` of job p.
RemoteCall(p, a) ==
  /\ runCalls' = [runCalls EXCEPT ![p] = @ \cup {a}]
  /\ callAfterExc' = [callAfterExc EXCEPT ![p] = @ \/ mem[p].state = "excepted"]

\* The action of the step returns: run_step assigns the next step.
Advance(p) == [mem EXCEPT ![p].step = StepAfter(@)]

\* The step whose action a coroutine position belongs to.
StepAt(p) ==
  CASE pc[p] \in {"up_script", "up_inputs", "up_post", "up_wait"} -> "uploading"
    [] pc[p] = "submit" -> "submitting"
    [] pc[p] \in {"poll", "poll_sleep"} -> "running"
    [] pc[p] \in {"retrieve", "re_file"} -> "retrieving"
    [] OTHER -> mem[p].step

\* `except RuntimeError` in place of `except Exception`.
CaughtRuntimeOnly(exc) == exc.kind = "RuntimeError"

\* run_calcjob line 62: `except Exception` catches what derives from
\* Exception (not CancelledError, KeyboardInterrupt, SystemExit).
Caught(exc) == exc.kind \notin {"CancelledError", "KeyboardInterrupt", "SystemExit"}

\* An exception leaves the step's coroutine. Caught, it reaches run_calcjob's
\* except branch (lines 62-66): state and exception are set on the object.
\* Not caught, it leaves the task, and gather hands it to asyncio.run.
Raise(p, exc) ==
  /\ raisedAt' = [raisedAt EXCEPT ![p] = Some([step |-> StepAt(p), exc |-> exc])]
  /\ IF Caught(exc)
     THEN /\ mem' = [mem EXCEPT ![p] = Excepted(@, exc)]
          /\ Goto(p, "persist_exc", FALSE)
     ELSE /\ mem' = mem
          /\ Goto(p, "raised", TRUE)

\* run_calcjob: `while process.step != "finalised"`: where the coroutine goes
\* when it next runs.
LoopTest(row) == IF row.step # "finalised" THEN "step" ELSE "finish"

\* run_step: created falls through to uploading, then the if/elif chain.
RunStep(p) ==
  /\ Holds(p) /\ pc[p] = "step"
  /\ LET s == EnterStep(mem[p].step) IN
     IF Dispatch(s) = "unknown"
     THEN /\ Raise(p, [kind |-> "ValueError", msg |-> "Unknown step name " \o s])
          /\ UNCHANGED <<db, engine, idx, paths, handle, sched, nsubmit, store,
                         lastPoll, runCalls, callAfterExc, startRow, completed>>
     ELSE /\ mem' = [mem EXCEPT ![p].step = s]
          /\ Goto(p, Dispatch(s), FALSE)
          /\ UNCHANGED <<db, engine, idx, paths, handle, sched, nsubmit, store,
                         ghost>>
  /\ UNCHANGED notEngine

\* copy_to_remote: mkdir of the remote job folder and simple_upload of job.sh
\* (either may raise), then reliquish.
UpScript(p) ==
  /\ Holds(p) /\ pc[p] = "up_script"
  /\ RemoteCall(p, "upload")
  /\ \/ /\ Relinquish(p, "up_inputs")
        /\ idx' = [idx EXCEPT ![p] = 1]
        /\ UNCHANGED <<mem, raisedAt>>
     \/ Raise(p, TransportError) /\ UNCHANGED idx
  /\ UNCHANGED <<db, engine, paths, handle, sched, nsubmit, store,
                 lastPoll, startRow, completed>>
  /\ UNCHANGED notEngine

\* copy_to_remote: the loop over code.upload_paths then calc.upload_paths is
\* over; run_step sets step = submitting.
UpDone(p) ==
  /\ Holds(p) /\ pc[p] = "up_inputs" /\ idx[p] > Len(Inputs(p))
  /\ mem' = Advance(p)
  /\ completed' = [completed EXCEPT ![p] = @ \cup {"upload"}]
  /\ Goto(p, "persist", FALSE)
  /\ UNCHANGED <<db, engine, idx, paths, handle, sched, nsubmit, store,
                 lastPoll, runCalls, callAfterExc, raisedAt, startRow>>
  /\ UNCHANGED notEngine

\* copy_to_remote: one entry of the loop: mkdir for a None key, simple_upload
\* and reliquish for a small blob, external_upload for a large one.
UpInput(p) ==
  /\ Holds(p) /\ pc[p] = "up_inputs" /\ idx[p] <= Len(Inputs(p))
  /\ RemoteCall(p, "upload")
  /\ LET kind == Inputs(p)[idx[p]] IN
     \/ /\ kind = "dir"
        /\ Goto(p, "up_inputs", FALSE)
        /\ idx' = [idx EXCEPT ![p] = @ + 1]
        /\ UNCHANGED <<mem, raisedAt, handle>>
     \/ /\ kind = "small"
        /\ Relinquish(p, "up_inputs")
        /\ idx' = [idx EXCEPT ![p] = @ + 1]
        /\ UNCHANGED <<mem, raisedAt, handle>>
     \/ /\ kind = "large"
        /\ Goto(p, "up_post", FALSE)
        /\ handle' = [handle EXCEPT ![p] = "in_progress"]
        /\ UNCHANGED <<mem, raisedAt, idx>>
     \/ Raise(p, TransportError) /\ UNCHANGED <<idx, handle>>
  /\ UNCHANGED <<db, engine, paths, sched, nsubmit, store,
                 lastPoll, startRow, completed>>
  /\ UNCHANGED notEngine

\* copy_to_remote: await upload_io_to_url (the POST to the signed URL).
UpPost(p) ==
  /\ Holds(p) /\ pc[p] = "up_post"
  /\ RemoteCall(p, "upload")
  /\ \/ /\ Goto(p, "up_wait", TRUE)
        /\ UNCHANGED <<mem, raisedAt>>
     \/ Raise(p, TransportError)
  /\ UNCHANGED <<db, engine, idx, paths, handle, sched, nsubmit, store,
                 lastPoll, startRow, completed>>
  /\ UNCHANGED notEngine

\* poll_object_transfer: `while obj.in_progress: await asyncio.sleep(interval)`
\* (no timeout is passed).
UpWait(p) ==
  /\ Holds(p) /\ pc[p] = "up_wait"
  /\ RemoteCall(p, "upload")
  /\ \/ /\ handle[p] = "in_progress"
        /\ Goto(p, "up_wait", TRUE)
        /\ UNCHANGED <<mem, raisedAt, idx>>
     \/ /\ handle[p] # "in_progress"
        /\ Goto(p, "up_inputs", FALSE)
        /\ idx' = [idx EXCEPT ![p] = @ + 1]
        /\ UNCHANGED <<mem, raisedAt>>
     \/ Raise(p, TransportError) /\ UNCHANGED idx
  /\ UNCHANGED <<db, engine, paths, handle, sched, nsubmit, store,
                 lastPoll, startRow, completed>>
  /\ UNCHANGED notEngine

\* submit_on_remote: client.submit, job_id recorded; run_step sets running.
Submit(p) ==
  /\ Holds(p) /\ pc[p] = "submit"
  /\ RemoteCall(p, "submit")
  /\ nsubmit' = [nsubmit EXCEPT ![p] = @ + 1]
  /\ \/ /\ mem' = [Advance(p) EXCEPT ![p] = Submitted(@, JobId(p, nsubmit[p] + 1))]
        /\ sched' = [sched EXCEPT ![p] = "RUNNING"]
        /\ completed' = [completed EXCEPT ![p] = @ \cup {"submit"}]
        /\ Goto(p, "persist", FALSE)
        /\ UNCHANGED raisedAt
     \/ Raise(p, TransportError) /\ UNCHANGED <<sched, completed>>
  /\ UNCHANGED <<db, engine, idx, paths, handle, store,
                 lastPoll, startRow>>
  /\ UNCHANGED notEngine

\* poll_until_finished: one iteration of the loop (timeout is None): poll the
\* job id of the process; COMPLETED ends the loop, anything else goes to
\* `await asyncio.sleep(interval)`.
Poll(p) ==
  /\ Holds(p) /\ pc[p] = "poll"
  /\ RemoteCall(p, "poll")
  /\ lastPoll' = [lastPoll EXCEPT ![p] = mem[p].job_id]
  /\ \/ /\ sched[p] = "COMPLETED"
        /\ mem' = Advance(p)
        /\ completed' = [completed EXCEPT ![p] = @ \cup {"poll"}]
        /\ Goto(p, "persist", FALSE)
        /\ UNCHANGED raisedAt
     \/ /\ sched[p] # "COMPLETED"
        /\ Goto(p, "poll_sleep", TRUE)
        /\ UNCHANGED <<mem, raisedAt, completed>>
     \/ Raise(p, TransportError) /\ UNCHANGED completed
  /\ UNCHANGED <<db, engine, idx, paths, handle, sched, nsubmit, store,
                 startRow>>
  /\ UNCHANGED notEngine

\* poll_until_finished: the sleep is over and the loop tests `timeout is None
\* or (time.time() - start) < timeout` again: the next iteration, or, with a
\* timeout whose deadline has passed, the `else` of the while raises.
PollWake(p) ==
  /\ Holds(p) /\ pc[p] = "poll_sleep"
  /\ \/ /\ Goto(p, "poll", FALSE)
        /\ UNCHANGED <<mem, raisedAt>>
     \/ /\ PollTimeout # NULL
        /\ Raise(p, TimeoutError)
  /\ UNCHANGED <<db, engine, idx, paths, handle, sched, nsubmit, store,
                 lastPoll, runCalls, callAfterExc, startRow, completed>>
  /\ UNCHANGED notEngine

\* copy_from_remote: vglob lists the remote job folder (list_files).
Retrieve(p) ==
  /\ Holds(p) /\ pc[p] = "retrieve"
  /\ RemoteCall(p, "retrieve")
  /\ \/ /\ Goto(p, "re_file", FALSE)
        /\ idx' = [idx EXCEPT ![p] = 1]
        /\ paths' = [paths EXCEPT ![p] = {}]
        /\ UNCHANGED <<mem, raisedAt>>
     \/ Raise(p, TransportError) /\ UNCHANGED <<idx, paths>>
  /\ UNCHANGED <<db, engine, handle, sched, nsubmit, store,
                 lastPoll, startRow, completed>>
  /\ UNCHANGED notEngine

\* copy_from_remote: the globs are exhausted: retrieved_paths = paths, and
\* run_step sets step = finalised.
ReDone(p) ==
  /\ Holds(p) /\ pc[p] = "re_file" /\ idx[p] > Len(Outputs(p))
  /\ mem' = [Advance(p) EXCEPT ![p].retrieved_paths = paths[p]]
  /\ completed' = [completed EXCEPT ![p] = @ \cup {"retrieve"}]
  /\ Goto(p, "persist", FALSE)
  /\ UNCHANGED <<db, engine, idx, paths, handle, sched, nsubmit, store,
                 lastPoll, runCalls, callAfterExc, raisedAt, startRow>>
  /\ UNCHANGED notEngine

\* copy_from_remote: a matched path that needs no remote call: job.sh and
\* symlinks are skipped, a directory is recorded with a null key.
ReSkip(p) ==
  /\ Holds(p) /\ pc[p] = "re_file" /\ idx[p] <= Len(Outputs(p))
  /\ Outputs(p)[idx[p]] \in {"script", "symlink", "dir"}
  /\ paths' = [paths EXCEPT ![p] =
                 IF Outputs(p)[idx[p]] = "dir" THEN @ \cup {<<idx[p], NULL>>} ELSE @]
  /\ idx' = [idx EXCEPT ![p] = @ + 1]
  /\ Goto(p, "re_file", FALSE)
  /\ UNCHANGED <<db, mem, engine, handle, sched, nsubmit, store,
                 ghost>>
  /\ UNCHANGED notEngine

\* copy_from_remote: a matched regular file: checksum, then nothing if the
\* blob is in the object store, simple_download + add_from_bytes + reliquish
\* if it is small, NotImplementedError if it is big.
ReFile(p) ==
  /\ Holds(p) /\ pc[p] = "re_file" /\ idx[p] <= Len(Outputs(p))
  /\ Outputs(p)[idx[p]] \in {"small", "big"}
  /\ RemoteCall(p, "retrieve")
  /\ LET c == Checksum(p, idx[p]) IN
     \/ /\ c \in store
        /\ paths' = [paths EXCEPT ![p] = @ \cup {<<idx[p], Some(c)>>}]
        /\ idx' = [idx EXCEPT ![p] = @ + 1]
        /\ Goto(p, "re_file", FALSE)
        /\ UNCHANGED <<mem, raisedAt, store>>
     \/ /\ c \notin store /\ Outputs(p)[idx[p]] = "small"
        /\ \/ /\ store' = store \cup {c}
              /\ paths' = [paths EXCEPT ![p] = @ \cup {<<idx[p], Some(c)>>}]
              /\ idx' = [idx EXCEPT ![p] = @ + 1]
              /\ Relinquish(p, "re_file")
              /\ UNCHANGED <<mem, raisedAt>>
           \/ /\ store' = store \cup {CorruptKey}
              /\ Raise(p, ChecksumError)
              /\ UNCHANGED <<idx, paths>>
     \/ /\ c \notin store /\ Outputs(p)[idx[p]] = "big"
        /\ Raise(p, BigFileError)
        /\ UNCHANGED <<idx, paths, store>>
     \/ Raise(p, TransportError) /\ UNCHANGED <<idx, paths, store>>
  /\ UNCHANGED <<db, engine, handle, sched, nsubmit,
                 lastPoll, startRow, completed>>
  /\ UNCHANGED notEngine

\* run_calcjob line 69-70: _update_row after the step, then reliquish.
Persist(p) ==
  /\ Holds(p) /\ pc[p] = "persist"
  /\ db' = SaveToDb(mem, p)
  /\ Relinquish(p, LoopTest(mem[p]))
  /\ UNCHANGED <<mem, engine, idx, paths, handle, sched, nsubmit, store,
                 ghost>>
  /\ UNCHANGED notEngine

\* run_calcjob line 67-68: _update_row in the except branch, then break.
PersistExc(p) ==
  /\ Holds(p) /\ pc[p] = "persist_exc"
  /\ db' = SaveToDb(mem, p)
  /\ Goto(p, "finish", FALSE)
  /\ UNCHANGED <<mem, engine, idx, paths, handle, sched, nsubmit, store,
                 ghost>>
  /\ UNCHANGED notEngine

\* run_calcjob line 72-74: after the loop, a finalised process is set to
\* finished and written; the coroutine returns.
Finish(p) ==
  /\ Holds(p) /\ pc[p] = "finish"
  /\ mem' = [mem EXCEPT ![p] = Finished(@)]
  /\ db' = IF mem[p].step = "finalised" THEN SaveToDb(mem', p) ELSE db
  /\ Goto(p, "done", TRUE)
  /\ UNCHANGED <<engine, idx, paths, handle, sched, nsubmit, store,
                 ghost>>
  /\ UNCHANGED notEngine

\* ------------------------------------------------------ the invocation
\* Values of `limit`: 0 stands for None (a limit of the number of rows or
\* more selects the same rows).
Limits == 0..(Cardinality(Procs) - 1)

\* No coroutine has run: the locals of the tasks and the per-invocation
\* bookkeeping are blank.
NoTasks ==
  /\ cur' = 0
  /\ idx' = [p \in Procs |-> 0]
  /\ paths' = [p \in Procs |-> {}]
  /\ handle' = [p \in Procs |-> "none"]
  /\ lastPoll' = [p \in Procs |-> NULL]
  /\ runCalls' = [p \in Procs |-> {}]
  /\ callAfterExc' = [p \in Procs |-> FALSE]
  /\ raisedAt' = [p \in Procs |-> NULL]

\* run_unfinished_calcjobs: the playing rows are read and asyncio.run starts
\* one run_calcjob task for each (run_multiple_calcjobs / gather).
StartRun(limit) ==
  /\ engine = "stopped"
  /\ engine' = "running"
  /\ mem' = db
  /\ pc' = [p \in Procs |-> IF p \in IterRows(db, limit) THEN LoopTest(db[p]) ELSE "idle"]
  /\ NoTasks
  /\ startRow' = db
  /\ UNCHANGED <<db, sched, nsubmit, store, completed>>
  /\ UNCHANGED notEngine

\* asyncio.run ends when every task of the gather has returned, or when one
\* has raised (the tasks still pending are then cancelled).
EndRun ==
  /\ engine = "running"
  /\ \/ \A p \in Procs : pc[p] \in {"idle", "done"}
     \/ \E p \in Procs : pc[p] = "raised"
  /\ engine' = "stopped"
  /\ pc' = [p \in Procs |-> "idle"]
  /\ NoTasks
  /\ startRow' = db
  /\ UNCHANGED <<db, mem, sched, nsubmit, store, completed>>
  /\ UNCHANGED notEngine

\* ---------------------------------------------------------- environment
\* The engine's process is killed: what the session held and had not
\* committed is lost.
Crash ==
  /\ engine = "running"
  /\ SubmitsOf(nsubmit, Procs) < MaxSubmits
  /\ engine' = "stopped"
  /\ mem' = db
  /\ pc' = [p \in Procs |-> "idle"]
  /\ NoTasks
  /\ startRow' = db
  /\ UNCHANGED <<db, sched, nsubmit, store, completed>>
  /\ UNCHANGED notEngine

\* The caller sets an excepted process back to playing.
Replay(p) ==
  /\ engine = "stopped"
  /\ SubmitsOf(nsubmit, Procs) < MaxSubmits
  /\ db[p].state = "excepted"
  /\ db' = [db EXCEPT ![p].state = "playing"]
  /\ mem' = db'
  /\ startRow' = db'
  /\ UNCHANGED <<pc, cur, engine, idx, paths, handle, sched, nsubmit, store,
                 lastPoll, runCalls, callAfterExc, raisedAt, completed>>
  /\ UNCHANGED notEngine

\* The batch scheduler ends the submitted job.
SchedulerAdvance(p) ==
  /\ sched[p] = "RUNNING"
  /\ \E s \in {"COMPLETED", "FAILED"} : sched' = [sched EXCEPT ![p] = s]
  /\ UNCHANGED <<db, mem, pc, cur, engine, idx, paths, handle, nsubmit, store,
                 ghost>>
  /\ UNCHANGED notEngine

\* The facade finishes the staged transfer: in_progress clears.
TransferDone(p) ==
  /\ handle[p] = "in_progress"
  /\ handle' = [handle EXCEPT ![p] = "clear"]
  /\ UNCHANGED <<db, mem, pc, cur, engine, idx, paths, sched, nsubmit, store,
                 ghost>>
  /\ UNCHANGED notEngine

Task(p) ==
  \/ RunStep(p)
  \/ UpScript(p) \/ UpInput(p) \/ UpDone(p) \/ UpPost(p) \/ UpWait(p)
  \/ Submit(p) \/ Poll(p) \/ PollWake(p)
  \/ Retrieve(p) \/ ReSkip(p) \/ ReFile(p) \/ ReDone(p)
  \/ Persist(p) \/ PersistExc(p) \/ Finish(p)

Env == \E p \in Procs : SchedulerAdvance(p) \/ TransferDone(p)

Next ==
  \/ \E limit \in Limits : StartRun(limit)
  \/ \E p \in Procs : Task(p)
  \/ EndRun
  \/ Env
  \/ Crash
  \/ \E p \in Procs : Replay(p)

Spec == Init /\ [][Next]_vars

\* ------------------------------------------------------------- liveness
\* One invocation after another without a crash or a replay. The event loop
\* runs every ready coroutine (strong fairness: a coroutine is ready only
\* while no other holds the loop); the scheduler ends every job and the
\* facade finishes every transfer.
LiveNext ==
  \/ \E limit \in Limits : StartRun(limit)
  \/ \E p \in Procs : Task(p)
  \/ EndRun
  \/ Env

FairSpec ==
  /\ Init
  /\ [][LiveNext]_vars
  /\ \A p \in Procs : SF_vars(Task(p))
  /\ \A p \in Procs : WF_vars(SchedulerAdvance(p)) /\ WF_vars(TransferDone(p))

\* ================================================================ claims
\* The step actions in the order of the step chain, and the step each runs in.
StepActions == <<"upload", "submit", "poll", "retrieve">>
ActionStep(a) ==
  CASE a = "upload" -> "uploading"
    [] a = "submit" -> "submitting"
    [] a = "poll" -> "running"
    [] a = "retrieve" -> "retrieving"

Started(p) == pc[p] \notin {"idle", "done", "raised"}

\* The step actions whose step lies before `step` in the chain.
ActionsBefore(step) ==
  CASE step \in {"created", "uploading"} -> {}
    [] step = "submitting" -> {"upload"}
    [] step = "running" -> {"upload", "submit"}
    [] step = "retrieving" -> {"upload", "submit", "poll"}
    [] step = "finalised" -> {"upload", "submit", "poll", "retrieve"}

\* The completed step actions form a prefix of upload, submit, poll, retrieve.
InOrder(done) ==
  done \in {ActionsBefore(Steps[i]) : i \in 2..Len(Steps)}

\* C1: the step of a process only moves forward along created -> uploading
\* -> submitting -> running -> retrieving -> finalised: the committed step
\* never decreases, within an invocation the step of the object only moves to
\* the next one, and a step is only reached after the actions of all earlier
\* steps have completed, each after the one before it (upload, submit, poll,
\* retrieve).
C1_StepsInOrder ==
  /\ [](\A p \in Procs :
          /\ ActionsBefore(mem[p].step) \subseteq completed[p]
          /\ ActionsBefore(db[p].step) \subseteq completed[p]
          /\ InOrder(completed[p]))
  /\ [][\A p \in Procs :
          /\ db'[p].step # db[p].step => Rank(db'[p].step) > Rank(db[p].step)
          /\ (mem'[p].step # mem[p].step /\ engine = "running" /\ engine' = "running")
               => Rank(mem'[p].step) = Rank(mem[p].step) + 1]_vars

\* C1 witness: a process has gone through the whole chain.
C1_Witness ==
  \E p \in Procs :
    /\ db[p].step = "finalised"
    /\ completed[p] = {"upload", "submit", "poll", "retrieve"}
    /\ db[p].job_id # NULL

\* C2: when the action of a step raises, the object gets state excepted and
\* exception "<type name>: <message>", its step stays the step whose action
\* raised (not finalised), the row is written before the task ends, and the
\* task makes no further remote call.
C2_ExceptionRecorded ==
  \A p \in Procs :
    raisedAt[p] # NULL =>
      LET r == raisedAt[p][1] IN
      /\ pc[p] \in {"persist_exc", "finish", "done"}
      /\ mem[p].state = "excepted"
      /\ mem[p].exception = Some(r.exc.kind \o ": " \o r.exc.msg)
      /\ mem[p].step = r.step
      /\ mem[p].step # "finalised"
      /\ ~callAfterExc[p]
      /\ pc[p] \in {"finish", "done"} => db[p] = mem[p]

\* C2 witness: a task has ended after its retrieving step raised.
C2_Witness ==
  \E p \in Procs :
    /\ pc[p] = "done"
    /\ raisedAt[p] # NULL
    /\ raisedAt[p][1].step = "retrieving"
    /\ db[p].state = "excepted"
    /\ db[p].step = "retrieving"

\* C3: in every committed row, state finished implies step finalised, and
\* state excepted implies that exception is set.
C3_StateInvariants ==
  \A p \in Procs :
    /\ db[p].state = "finished" => db[p].step = "finalised"
    /\ db[p].state = "excepted" => db[p].exception # NULL

\* C3 witness: one committed row is finished and another is excepted.
C3_Witness ==
  \E p, q \in Procs : db[p].state = "finished" /\ db[q].state = "excepted"

\* C4: a process whose task has ended at step finalised, in whatever number
\* of invocations (also after the caller set it back from excepted to
\* playing), is finished and its exception is null.
C4_FinalisedIsClean ==
  \A p \in Procs :
    (pc[p] = "done" /\ db[p].step = "finalised")
      => (db[p].state = "finished" /\ db[p].exception = NULL)

\* C5: when a step of one job raises, the exception does not leave that
\* job's task, and every task of the invocation ends by the outcome of its
\* own steps: finished at finalised if none raised, excepted at the step
\* that raised otherwise.
C5_TasksIndependent ==
  \A p \in Procs :
    /\ pc[p] # "raised"
    /\ pc[p] = "done" =>
         IF raisedAt[p] = NULL
         THEN db[p].state = "finished" /\ db[p].step = "finalised"
         ELSE /\ db[p].state = "excepted"
              /\ db[p].step = raisedAt[p][1].step
              /\ db[p].exception = Some(raisedAt[p][1].exc.kind \o ": " \o raisedAt[p][1].exc.msg)

\* C5 witness: in one invocation of two tasks, one job has ended excepted
\* and the other has ended finished.
C5_Witness ==
  \E p, q \in Procs :
    /\ engine = "running"
    /\ pc[p] = "done" /\ raisedAt[p] # NULL /\ db[p].state = "excepted"
    /\ pc[q] = "done" /\ raisedAt[q] = NULL /\ db[q].state = "finished"
    /\ startRow[p].state = "playing" /\ startRow[q].state = "playing"

C7_ResumesAtStep ==
  \A p \in Procs :
    engine = "running" =>
      /\ \A a \in runCalls[p] :
           Rank(ActionStep(a)) >= Rank(startRow[p].step)
      /\ startRow[p].step = "running" =>
           /\ "submit" \notin runCalls[p]
           /\ mem[p].job_id = startRow[p].job_id
           /\ lastPoll[p] \in {NULL, startRow[p].job_id}
           /\ (pc[p] = "done" /\ raisedAt[p] = NULL) =>
                /\ db[p].state = "finished"
                /\ "retrieve" \in runCalls[p]
                /\ lastPoll[p] = startRow[p].job_id

\* C7 witness: a task started at step running has polled its job id and has
\* ended finished.
C7_Witness ==
  \E p \in Procs :
    /\ engine = "running"
    /\ startRow[p].step = "running" /\ startRow[p].job_id # NULL
    /\ lastPoll[p] = startRow[p].job_id
    /\ pc[p] = "done" /\ db[p].state = "finished"

\* C8 as claimed: across invocations separated by crashes (no step of the
\* calcjob recorded as failed), submit is called at most once for a calcjob.
C8_SubmitAtMostOnce ==
  \A p \in Procs : db[p].exception = NULL => nsubmit[p] <= 1

\* The positions of a coroutine inside the action of a step.
InAction(p) == pc[p] \in {"up_script", "up_inputs", "up_post", "up_wait",
                          "submit", "poll", "poll_sleep", "retrieve", "re_file"}

C11_TimeoutExcepts ==
  \A p \in Procs :
    (pc[p] \in {"poll", "poll_sleep"} /\ sched[p] = "FAILED")
      ~> /\ pc[p] = "done"
         /\ db[p].state = "excepted"
         /\ db[p].step = "running"
         /\ db[p].exception \in {Some(ExcStr(TimeoutError)), Some(ExcStr(TransportError))}

\* ------------------------------------------- the transfers of one calcjob
\* copy_to_remote and copy_from_remote call by call, for a single calcjob
\* (no other task, no crash): run_calcjob's loop with submit and poll as one
\* step each.

\* Code.script_filename.
ScriptFilename == "job.sh"

\* client_row.small_file_size_mb * 1024 * 1024
Threshold(mb) == mb * 1024 * 1024

\* ostore.get_size(key) of the blobs in play, in bytes: at, one under and one
\* over the threshold of 1 MiB and of 2 MiB.
GetSize(key) ==
  CASE key = "sha-a" -> 1024 * 1024 - 1
    [] key = "sha-b" -> 1024 * 1024
    [] key = "sha-c" -> 1024 * 1024 + 1
    [] key = "sha-d" -> 2 * 1024 * 1024
    [] key = "sha-e" -> 2 * 1024 * 1024 + 1

\* The blobs the upload_paths refer to.
InputKeys == {"sha-a", "sha-b", "sha-c", "sha-d", "sha-e"}

\* An item of upload_paths: relative path (as its components) -> key or None.
Entry(path, key) == [path |-> path, key |-> key]

\* A RemotePath yielded by vglob: relative path, type from list_files
\* ("-" file, "d" directory, "l" symlink), size, and the SHA-256 the remote
\* computes for it.
RemoteFile(path, ftype, size, sum) ==
  [path |-> path, ftype |-> ftype, size |-> size, sum |-> sum]

\* code.upload_paths of the calcjob's code, in dict order.
CodeUploads ==
  { <<>>,
    <<Entry(<<"in">>, Some("sha-b"))>>,
    <<Entry(<<"d">>, NULL), Entry(<<"d", "x">>, Some("sha-a"))>> }

\* calc.upload_paths, in dict order.
CalcUploads ==
  { <<>>,
    <<Entry(<<"in">>, Some("sha-c"))>>,
    <<Entry(<<"in">>, Some("sha-d")), Entry(<<"big">>, Some("sha-e"))>>,
    <<Entry(<<"d", "x">>, Some("sha-b"))>>,
    <<Entry(<<ScriptFilename>>, Some("sha-a"))>> }

\* What each of calc.download_globs matches on the remote once the job has
\* run, in vglob order.
Listings ==
  { << <<RemoteFile(<<ScriptFilename>>, "-", 120, "sha-s"),
         RemoteFile(<<"out">>, "d", 0, ""),
         RemoteFile(<<"lnk">>, "l", 9, ""),
         RemoteFile(<<"out", "a">>, "-", 1024 * 1024, "sha-o1")>>,
       <<RemoteFile(<<"out", "a">>, "-", 1024 * 1024, "sha-o1")>> >>,
    << <<RemoteFile(<<"lnk">>, "l", 9, ""),
         RemoteFile(<<"in">>, "-", 1024 * 1024 - 1, "sha-a"),
         RemoteFile(<<"res">>, "-", 1024 * 1024 + 1, "sha-o2")>> >>,
    << <<RemoteFile(<<"x">>, "-", 1024 * 1024, "sha-o1"),
         RemoteFile(<<"y">>, "-", 1024 * 1024, "sha-o1"),
         RemoteFile(<<"z">>, "-", 2 * 1024 * 1024 + 1, "sha-o3")>> >>,
    << <<RemoteFile(<<"z">>, "-", 2 * 1024 * 1024 + 1, "sha-o3")>>, <<>> >> }

\* small_file_size_mb of the client.
SmallFileSizes == {1, 2}

\* The calcjobs explored.
CalcJobs ==
  [small_file_size_mb : SmallFileSizes, code_upload_paths : CodeUploads,
   upload_paths : CalcUploads, matches : Listings]

\* The chain with the calcjob's items first.
ChainCalcFirst(c) == c.upload_paths \o c.code_upload_paths

\* chain(calc.code.upload_paths.items(), calc.upload_paths.items())
Chain(c) == c.code_upload_paths \o c.upload_paths

\* The nested loops of copy_from_remote as one sequence: for each glob the
\* listing by vglob (an item of type "glob"), then what it matches.
RECURSIVE Work(_)
Work(globs) ==
  IF globs = <<>> THEN <<>>
  ELSE <<RemoteFile(<<>>, "glob", 0, "")>> \o Head(globs) \o Work(Tail(globs))

\* remote_path.parent
Parent(path) == SubSeq(path, 1, Len(path) - 1)

\* Relative paths of the remote job folder that the uploads can touch.
RemotePaths == {<<ScriptFilename>>, <<"in">>, <<"big">>, <<"d">>, <<"d", "x">>}

\* A call of the FirecREST client (or the POST to the signed URL), made for
\* `path` while the loop is at position `entry`.
Call(op, path, entry) == [op |-> op, path |-> path, entry |-> entry]

\* paths[save_path] = key
Put(dict, path, key) == {e \in dict : e.path # path} \cup {Entry(path, key)}

\* No external upload has been asked for yet.
NoUpload == [in_progress |-> FALSE, posted |-> FALSE, path |-> <<>>, key |-> ""]

\* The engine of several calcjobs is not running.
EngineIdle ==
  /\ db = [p \in Procs |-> NewRow]
  /\ mem = db
  /\ pc = [p \in Procs |-> "idle"]
  /\ cur = 0
  /\ engine = "stopped"
  /\ idx = [p \in Procs |-> 0]
  /\ paths = [p \in Procs |-> {}]
  /\ handle = [p \in Procs |-> "none"]
  /\ sched = [p \in Procs |-> "none"]
  /\ nsubmit = [p \in Procs |-> 0]
  /\ store = {}
  /\ lastPoll = [p \in Procs |-> NULL]
  /\ runCalls = [p \in Procs |-> {}]
  /\ callAfterExc = [p \in Procs |-> FALSE]
  /\ raisedAt = [p \in Procs |-> NULL]
  /\ startRow = db
  /\ completed = [p \in Procs |-> {}]

\* A stored calcjob with a new process, about to be run; the object store
\* holds the input blobs, and may already hold one of the outputs.
XferInit ==
  /\ EngineIdle
  /\ StoreIdle
  /\ DiskIdle
  /\ DbIdle
  /\ FilterIdle
  /\ PairIdle
  /\ calc \in CalcJobs
  /\ proc = NewRow
  /\ xpc = "step"
  /\ xi = 0
  /\ calls = <<>>
  /\ remote = [path \in RemotePaths |-> "absent"]
  /\ up_obj = NoUpload
  /\ ostore \in {InputKeys, InputKeys \cup {"sha-o3"}}
  /\ xpaths = {}
  /\ checksum = NULL

\* run_calcjob, the except branch: the exception is recorded and the loop
\* left (the process is not finalised, so nothing follows).
XRaise(exc) ==
  /\ proc' = Excepted(proc, exc)
  /\ xpc' = "done"

\* The action of the step has returned: run_step assigns the next step, and
\* run_calcjob tests its loop condition.
XAdvance(row) ==
  /\ proc' = [row EXCEPT !.step = StepAfter(@)]
  /\ xpc' = LoopTest(proc')

\* run_step: created falls through to uploading, then the if/elif chain.
XRunStep ==
  /\ xpc = "step"
  /\ LET s == EnterStep(proc.step) IN
     /\ proc' = [proc EXCEPT !.step = s]
     /\ xpc' = Dispatch(s)
     /\ xi' = IF s \in {"uploading", "retrieving"} THEN 1 ELSE xi
     /\ xpaths' = IF s = "retrieving" THEN {} ELSE xpaths
  /\ UNCHANGED <<calc, calls, remote, up_obj, ostore, checksum>>
  /\ UNCHANGED notXfer

\* copy_to_remote lines 131-141: mkdir of the remote job folder, then
\* simple_upload of the rendered script; either call may raise.
XUpScript ==
  /\ xpc = "up_script"
  /\ LET mk == Call("mkdir", <<>>, 0)
         up == Call("simple_upload", <<ScriptFilename>>, 0) IN
     \/ /\ calls' = calls \o <<mk>>
        /\ XRaise(TransportError)
        /\ UNCHANGED remote
     \/ /\ calls' = calls \o <<mk, up>>
        /\ XRaise(TransportError)
        /\ UNCHANGED remote
     \/ /\ calls' = calls \o <<mk, up>>
        /\ remote' = [remote EXCEPT ![<<ScriptFilename>>] = "script"]
        /\ xpc' = "up_loop"
        /\ UNCHANGED proc
  /\ UNCHANGED <<calc, xi, up_obj, ostore, xpaths, checksum>>
  /\ UNCHANGED notXfer

\* mkdir(..., p=True): the directory exists afterwards.
Mkdir(fs, path) == IF path \in DOMAIN fs THEN [fs EXCEPT ![path] = "dir"] ELSE fs

\* copy_to_remote comparing with `<`: a blob of exactly the threshold is
\* staged.
IsSmallStrict(size, mb) == size < Threshold(mb)

\* `file_size <= client_row.small_file_size_mb * 1024 * 1024`
IsSmall(size, mb) == size <= Threshold(mb)

\* copy_to_remote lines 144-181, one item of the chain: mkdir for a None key;
\* otherwise mkdir of the parent when it is not the job folder, then
\* simple_upload of a small blob or external_upload of a bigger one.
XUpEntry ==
  /\ xpc = "up_loop" /\ xi <= Len(Chain(calc))
  /\ LET e == Chain(calc)[xi]
         sub == Len(e.path) > 1
         pre == IF sub THEN <<Call("mkdir", Parent(e.path), xi)>> ELSE <<>>
         fs == IF sub THEN Mkdir(remote, Parent(e.path)) ELSE remote IN
     IF e.key = NULL
     THEN /\ calls' = calls \o <<Call("mkdir", e.path, xi)>>
          /\ \/ /\ remote' = Mkdir(remote, e.path)
                /\ xi' = xi + 1
                /\ UNCHANGED <<proc, xpc>>
             \/ /\ XRaise(TransportError)
                /\ UNCHANGED <<remote, xi>>
          /\ UNCHANGED up_obj
     ELSE \/ /\ sub
             /\ calls' = calls \o pre
             /\ XRaise(TransportError)
             /\ UNCHANGED <<remote, xi, up_obj>>
          \/ /\ IsSmall(GetSize(e.key[1]), calc.small_file_size_mb)
             /\ calls' = calls \o pre \o <<Call("simple_upload", e.path, xi)>>
             /\ \/ /\ remote' = [fs EXCEPT ![e.path] = e.key[1]]
                   /\ xi' = xi + 1
                   /\ UNCHANGED <<proc, xpc>>
                \/ /\ XRaise(TransportError)
                   /\ remote' = fs
                   /\ UNCHANGED xi
             /\ UNCHANGED up_obj
          \/ /\ ~IsSmall(GetSize(e.key[1]), calc.small_file_size_mb)
             /\ calls' = calls \o pre \o <<Call("external_upload", e.path, xi)>>
             /\ remote' = fs
             /\ \/ /\ up_obj' = [in_progress |-> TRUE, posted |-> FALSE,
                                 path |-> e.path, key |-> e.key[1]]
                   /\ xpc' = "up_post"
                   /\ UNCHANGED proc
                \/ /\ XRaise(TransportError)
                   /\ UNCHANGED up_obj
             /\ UNCHANGED xi
  /\ UNCHANGED <<calc, ostore, xpaths, checksum>>
  /\ UNCHANGED notXfer

\* copy_to_remote line 180: await upload_io_to_url, the POST of the blob to
\* the signed URL.
XUpPost ==
  /\ xpc = "up_post"
  /\ calls' = calls \o <<Call("post", up_obj.path, xi)>>
  /\ \/ /\ up_obj' = [up_obj EXCEPT !.posted = TRUE]
        /\ xpc' = "up_wait"
        /\ UNCHANGED proc
     \/ /\ XRaise(TransportError)
        /\ UNCHANGED up_obj
  /\ UNCHANGED <<calc, xi, remote, ostore, xpaths, checksum>>
  /\ UNCHANGED notXfer

\* The log with a status request added; a run of repeated requests is logged
\* once.
Polled(log, c) == IF log # <<>> /\ log[Len(log)] = c THEN log ELSE log \o <<c>>

\* poll_object_transfer waiting for a fixed number of seconds instead of for
\* the handle.
StillWaitingNever(obj) == FALSE

\* poll_object_transfer: `while obj.in_progress`
StillWaiting(obj) == obj.in_progress

\* copy_to_remote line 181: poll_object_transfer(up_obj): one test of
\* obj.in_progress (a status request); sleep while it holds, else the loop
\* over the chain goes on.
XUpWait ==
  /\ xpc = "up_wait"
  /\ calls' = Polled(calls, Call("in_progress", up_obj.path, xi))
  /\ \/ /\ StillWaiting(up_obj)
        /\ UNCHANGED <<proc, xpc, xi>>
     \/ /\ ~StillWaiting(up_obj)
        /\ xpc' = "up_loop"
        /\ xi' = xi + 1
        /\ UNCHANGED proc
     \/ /\ XRaise(TransportError)
        /\ UNCHANGED xi
  /\ UNCHANGED <<calc, remote, up_obj, ostore, xpaths, checksum>>
  /\ UNCHANGED notXfer

\* The staging area has received the blob and moves it to the remote path:
\* the handle is no longer in progress.
XTransferDone ==
  /\ up_obj.in_progress /\ up_obj.posted
  /\ up_obj' = [up_obj EXCEPT !.in_progress = FALSE]
  /\ remote' = [remote EXCEPT ![up_obj.path] = up_obj.key]
  /\ UNCHANGED <<calc, proc, xpc, xi, calls, ostore, xpaths, checksum>>
  /\ UNCHANGED notXfer

\* copy_to_remote: the chain is exhausted; run_step sets step = submitting.
XUpDone ==
  /\ xpc = "up_loop" /\ xi > Len(Chain(calc))
  /\ XAdvance(proc)
  /\ UNCHANGED <<calc, xi, calls, remote, up_obj, ostore, xpaths, checksum>>
  /\ UNCHANGED notXfer

\* submit_on_remote: client.submit, job_id recorded; run_step sets running.
XSubmit ==
  /\ xpc = "submit"
  /\ calls' = calls \o <<Call("submit", <<ScriptFilename>>, 0)>>
  /\ \/ XAdvance([proc EXCEPT !.job_id = Some(JobId(1, 1))])
     \/ XRaise(TransportError)
  /\ UNCHANGED <<calc, xi, remote, up_obj, ostore, xpaths, checksum>>
  /\ UNCHANGED notXfer

\* poll_until_finished: one poll; COMPLETED ends the loop and run_step sets
\* retrieving, anything else sleeps and polls again.
XPoll ==
  /\ xpc = "poll"
  /\ calls' = Polled(calls, Call("poll", <<>>, 0))
  /\ \/ XAdvance(proc)
     \/ UNCHANGED <<proc, xpc>>
     \/ XRaise(TransportError)
  /\ UNCHANGED <<calc, xi, remote, up_obj, ostore, xpaths, checksum>>
  /\ UNCHANGED notXfer

\* The SHA-256 of the bytes simple_download delivers: that of the remote
\* file, or another when they were altered on the way.
DownloadKeys(f) == {f.sum, "sha-bad"}

\* copy_from_remote without `paths[save_path] = None` for a directory.
RecordedFilesOnly(dict, path, key) == IF key = NULL THEN dict ELSE Put(dict, path, key)

\* copy_from_remote lines 233, 237, 249: paths[save_path] = None / key.
Recorded(dict, path, key) == Put(dict, path, key)

\* copy_from_remote without the test `checksum in ostore`: every file is
\* downloaded.
InStoreNever(key, keys) == FALSE

\* `checksum in ostore`
InStore(key, keys) == key \in keys

\* copy_from_remote lines 220-253, one item of the nested loops: the listing
\* of a glob; job.sh and symlinks skipped; a directory recorded with None; for
\* a file the remote checksum is asked, and the file is recorded when the
\* store holds that key, downloaded next when it is small, refused otherwise.
XReItem ==
  /\ xpc = "retrieve" /\ xi <= Len(Work(calc.matches))
  /\ LET f == Work(calc.matches)[xi] IN
     CASE f.ftype = "glob" ->
            /\ calls' = calls \o <<Call("list_files", <<>>, xi)>>
            /\ \/ xi' = xi + 1 /\ UNCHANGED <<proc, xpc>>
               \/ XRaise(TransportError) /\ UNCHANGED xi
            /\ UNCHANGED <<xpaths, checksum>>
       [] f.ftype # "glob" /\ f.path = <<ScriptFilename>> ->
            /\ xi' = xi + 1
            /\ UNCHANGED <<proc, xpc, calls, xpaths, checksum>>
       [] f.ftype = "l" /\ f.path # <<ScriptFilename>> ->
            /\ xi' = xi + 1
            /\ UNCHANGED <<proc, xpc, calls, xpaths, checksum>>
       [] f.ftype = "d" /\ f.path # <<ScriptFilename>> ->
            /\ xpaths' = Recorded(xpaths, f.path, NULL)
            /\ xi' = xi + 1
            /\ UNCHANGED <<proc, xpc, calls, checksum>>
       [] f.ftype = "-" /\ f.path # <<ScriptFilename>> ->
            /\ calls' = calls \o <<Call("checksum", f.path, xi)>>
            /\ \/ /\ checksum' = Some(f.sum)
                  /\ IF InStore(f.sum, ostore)
                     THEN /\ xpaths' = Recorded(xpaths, f.path, Some(f.sum))
                          /\ xi' = xi + 1
                          /\ UNCHANGED <<proc, xpc>>
                     ELSE IF IsSmall(f.size, calc.small_file_size_mb)
                     THEN /\ xpc' = "re_download"
                          /\ UNCHANGED <<proc, xi, xpaths>>
                     ELSE /\ XRaise(BigFileError)
                          /\ UNCHANGED <<xi, xpaths>>
               \/ /\ XRaise(TransportError)
                  /\ UNCHANGED <<xi, xpaths, checksum>>
  /\ UNCHANGED <<calc, remote, up_obj, ostore>>
  /\ UNCHANGED notXfer

\* copy_from_remote without the comparison of the key with the checksum.
KeyDiffersNever(key, sum) == FALSE

\* `key != checksum`
KeyDiffers(key, sum) == Some(key) # sum

\* copy_from_remote lines 242-250: simple_download into memory,
\* ostore.add_from_bytes, the key compared with the remote checksum.
XDownload ==
  /\ xpc = "re_download"
  /\ LET f == Work(calc.matches)[xi] IN
     /\ calls' = calls \o <<Call("simple_download", f.path, xi)>>
     /\ \/ \E key \in DownloadKeys(f) :
             /\ ostore' = ostore \cup {key}
             /\ IF KeyDiffers(key, checksum)
                THEN /\ XRaise(ChecksumError)
                     /\ UNCHANGED <<xi, xpaths>>
                ELSE /\ xpaths' = Recorded(xpaths, f.path, Some(key))
                     /\ xi' = xi + 1
                     /\ xpc' = "retrieve"
                     /\ UNCHANGED proc
        \/ /\ XRaise(TransportError)
           /\ UNCHANGED <<xi, xpaths, ostore>>
  /\ UNCHANGED <<calc, remote, up_obj, checksum>>
  /\ UNCHANGED notXfer

\* copy_from_remote line 283: retrieved_paths = paths; run_step sets
\* step = finalised.
XReDone ==
  /\ xpc = "retrieve" /\ xi > Len(Work(calc.matches))
  /\ XAdvance([proc EXCEPT !.retrieved_paths = xpaths])
  /\ UNCHANGED <<calc, xi, calls, remote, up_obj, ostore, xpaths, checksum>>
  /\ UNCHANGED notXfer

\* run_calcjob, after the loop: the finalised process becomes finished.
XFinish ==
  /\ xpc = "finish"
  /\ proc' = Finished(proc)
  /\ xpc' = "done"
  /\ UNCHANGED <<calc, xi, calls, remote, up_obj, ostore, xpaths, checksum>>
  /\ UNCHANGED notXfer

XferNext ==
  \/ XRunStep
  \/ XUpScript
  \/ XUpEntry
  \/ XUpPost
  \/ XUpWait
  \/ XTransferDone
  \/ XUpDone
  \/ XSubmit
  \/ XPoll
  \/ XReItem
  \/ XDownload
  \/ XReDone
  \/ XFinish

XferSpec == XferInit /\ [][XferNext]_vars

\* ------------------------------------------------------ claims: transfers
\* Number of calls `op` made for the item `k` of the upload chain.
CallsFor(op, k) ==
  Cardinality({j \in DOMAIN calls : calls[j].op = op /\ calls[j].entry = k})

\* The item k of the upload chain has been dealt with.
Uploaded(k) ==
  IF proc.step = "uploading" THEN xpc \in {"up_loop", "up_post", "up_wait", "done"} /\ k < xi
  ELSE proc.step # "created"

\* C12: every blob of the upload chain that has been dealt with was sent by
\* exactly one simple_upload and no external_upload when its size is at most
\* small_file_size_mb * 1024 * 1024 bytes, and by exactly one external_upload
\* and no simple_upload when it is bigger.
C12_UploadByThreshold ==
  \A k \in 1..Len(Chain(calc)) :
    LET e == Chain(calc)[k] IN
    (Uploaded(k) /\ e.key # NULL) =>
      IF GetSize(e.key[1]) <= calc.small_file_size_mb * 1024 * 1024
      THEN CallsFor("simple_upload", k) = 1 /\ CallsFor("external_upload", k) = 0
      ELSE CallsFor("simple_upload", k) = 0 /\ CallsFor("external_upload", k) = 1

\* C12 witness: the upload is over; a blob of exactly the threshold went by
\* simple_upload and one a byte larger by external_upload.
C12_Witness ==
  /\ proc.step = "submitting"
  /\ \E k, l \in 1..Len(Chain(calc)) :
       /\ Chain(calc)[k].key # NULL /\ Chain(calc)[l].key # NULL
       /\ GetSize(Chain(calc)[k].key[1]) = calc.small_file_size_mb * 1024 * 1024
       /\ GetSize(Chain(calc)[l].key[1]) = calc.small_file_size_mb * 1024 * 1024 + 1
       /\ CallsFor("simple_upload", k) = 1
       /\ CallsFor("external_upload", l) = 1

\* C13: in the retrieving step a simple_download is made only for a file of
\* at most small_file_size_mb * 1024 * 1024 bytes, and a bigger file is
\* fetched too: the step never stops because a file is big.
C13_DownloadByThreshold ==
  /\ \A j \in DOMAIN calls :
       calls[j].op = "simple_download" =>
         Work(calc.matches)[calls[j].entry].size <= calc.small_file_size_mb * 1024 * 1024
  /\ ~(xpc = "done" /\ proc.state = "excepted" /\ proc.step = "retrieving"
         /\ proc.exception = Some(ExcStr(BigFileError)))

\* Position in the log of the first call `op` made for the item k (0: none).
FirstCall(op, k) ==
  LET at == {j \in DOMAIN calls : calls[j].op = op /\ calls[j].entry = k}
  IN  IF at = {} THEN 0 ELSE CHOOSE j \in at : \A i \in at : j <= i

\* C14: for a staged upload the POST to the signed URL comes after
\* external_upload and the polling of the handle after the POST; and while
\* the handle is in progress the step is still uploading, the loop is still
\* at that item and no call has been made for a later item.
C14_StagedUploadOrder ==
  /\ \A k \in 1..Len(Chain(calc)) :
       /\ FirstCall("post", k) # 0 =>
            /\ FirstCall("external_upload", k) # 0
            /\ FirstCall("external_upload", k) < FirstCall("post", k)
       /\ FirstCall("in_progress", k) # 0 =>
            /\ FirstCall("post", k) # 0
            /\ FirstCall("post", k) < FirstCall("in_progress", k)
  /\ up_obj.in_progress =>
       /\ proc.step = "uploading"
       /\ xi \in 1..Len(Chain(calc))
       /\ Chain(calc)[xi].path = up_obj.path
       /\ \A j \in DOMAIN calls : calls[j].entry <= xi

\* C14 witness: the upload is over after a staged upload that was polled and
\* was followed by another item.
C14_Witness ==
  /\ proc.step = "submitting"
  /\ \E k \in 1..(Len(Chain(calc)) - 1) :
       /\ FirstCall("external_upload", k) # 0
       /\ FirstCall("in_progress", k) # 0
       /\ ~up_obj.in_progress

\* Calls made by copy_to_remote.
UploadOps == {"mkdir", "simple_upload", "external_upload", "post", "in_progress"}

\* C15: the first call of the uploading step creates the remote job folder,
\* the second uploads job.sh, and the calls for the items follow in the order
\* of the items, those of code.upload_paths before those of
\* calc.upload_paths; when the step has completed, every path of
\* calc.upload_paths that has a key holds the calcjob's blob on the remote,
\* and a path that only code.upload_paths has holds the code's.
C15_UploadOrder ==
  /\ Len(calls) >= 1 => calls[1] = Call("mkdir", <<>>, 0)
  /\ Len(calls) >= 2 => calls[2] = Call("simple_upload", <<ScriptFilename>>, 0)
  /\ \A i, j \in DOMAIN calls :
       (i < j /\ calls[i].op \in UploadOps /\ calls[j].op \in UploadOps)
         => calls[i].entry <= calls[j].entry
  /\ \A j \in DOMAIN calls :
       (calls[j].op \in UploadOps /\ calls[j].entry > 0) =>
         \/ /\ calls[j].entry <= Len(calc.code_upload_paths)
            /\ calls[j].path \in {calc.code_upload_paths[calls[j].entry].path,
                                  Parent(calc.code_upload_paths[calls[j].entry].path)}
         \/ /\ calls[j].entry > Len(calc.code_upload_paths)
            /\ LET e == calc.upload_paths[calls[j].entry - Len(calc.code_upload_paths)]
               IN  calls[j].path \in {e.path, Parent(e.path)}
  /\ proc.step \in {"submitting", "running", "retrieving", "finalised"} =>
       /\ \A k \in DOMAIN calc.upload_paths :
            calc.upload_paths[k].key # NULL =>
              remote[calc.upload_paths[k].path] = calc.upload_paths[k].key[1]
       /\ \A k \in DOMAIN calc.code_upload_paths :
            LET e == calc.code_upload_paths[k] IN
            (e.key # NULL /\ \A l \in DOMAIN calc.upload_paths : calc.upload_paths[l].path # e.path)
              => remote[e.path] = e.key[1]

\* C15 witness: the upload is over for a calcjob that has a path in both
\* maps, with different blobs, and the remote holds the calcjob's.
C15_Witness ==
  /\ proc.step = "submitting"
  /\ \E k \in DOMAIN calc.code_upload_paths, l \in DOMAIN calc.upload_paths :
       /\ calc.code_upload_paths[k].path = calc.upload_paths[l].path
       /\ calc.code_upload_paths[k].key # calc.upload_paths[l].key
       /\ remote[calc.upload_paths[l].path] = calc.upload_paths[l].key[1]

\* The item k of copy_from_remote's loops has been dealt with.
Retrieved(k) ==
  \/ proc.step = "finalised"
  \/ proc.step = "retrieving" /\ xpc \in {"retrieve", "re_download", "done"} /\ k < xi

\* The item k is a regular file other than the script.
IsFileItem(k) ==
  /\ Work(calc.matches)[k].ftype = "-"
  /\ Work(calc.matches)[k].path # <<ScriptFilename>>

\* Keys the object store held before the retrieval: the downloads add the
\* keys of what they delivered.
KeysBefore ==
  ostore \ ({Work(calc.matches)[calls[j].entry].sum :
               j \in {i \in DOMAIN calls : calls[i].op = "simple_download"}}
            \cup {"sha-bad"})

\* C16: a simple_download is made right after the checksum request for the
\* same file, and only when the store does not hold that checksum: never for
\* a key the store held before the retrieval, and never twice for the same
\* checksum, even when several globs match the file; a file that has been
\* dealt with is recorded under its checksum.
C16_ChecksumBeforeDownload ==
  /\ \A j \in DOMAIN calls :
       calls[j].op = "simple_download" =>
         /\ j > 1
         /\ calls[j - 1] = Call("checksum", calls[j].path, calls[j].entry)
         /\ Work(calc.matches)[calls[j].entry].sum \notin KeysBefore
         /\ \A i \in 1..(j - 1) :
              calls[i].op = "simple_download" =>
                Work(calc.matches)[calls[i].entry].sum # Work(calc.matches)[calls[j].entry].sum
  /\ xpc = "re_download" =>
       /\ checksum = Some(Work(calc.matches)[xi].sum)
       /\ checksum[1] \notin ostore
  /\ \A k \in 1..Len(Work(calc.matches)) :
       (Retrieved(k) /\ IsFileItem(k)) =>
         /\ CallsFor("checksum", k) = 1
         /\ Work(calc.matches)[k].sum \in KeysBefore => CallsFor("simple_download", k) = 0
         /\ proc.step = "retrieving" =>
              Entry(Work(calc.matches)[k].path, Some(Work(calc.matches)[k].sum)) \in xpaths

\* C16 witness: the retrieval is over; a file was downloaded when it was
\* first matched and only its checksum was asked when it was matched again.
C16_Witness ==
  /\ proc.step = "finalised"
  /\ \E k, l \in 1..Len(Work(calc.matches)) :
       /\ k < l /\ IsFileItem(k) /\ IsFileItem(l)
       /\ Work(calc.matches)[k].sum = Work(calc.matches)[l].sum
       /\ CallsFor("simple_download", k) = 1
       /\ CallsFor("checksum", l) = 1
       /\ CallsFor("simple_download", l) = 0

\* What the download globs matched, as the map copy_from_remote is to
\* record: directories with None, regular files with their key; neither
\* symlinks nor the script.
MatchedPaths ==
  LET W == Work(calc.matches) IN
  {Entry(W[k].path, IF W[k].ftype = "d" THEN NULL ELSE Some(W[k].sum)) :
     k \in {i \in DOMAIN W : W[i].ftype \in {"d", "-"} /\ W[i].path # <<"job.sh">>}}

\* C17: after a successful retrieving step retrieved_paths has exactly one
\* entry for each matched directory, with value null, and one for each
\* matched regular file, with an object key, and none for a symlink or for
\* job.sh.
C17_RetrievedPaths ==
  proc.step = "finalised" =>
    /\ proc.retrieved_paths = MatchedPaths
    /\ \A e \in proc.retrieved_paths :
         /\ e.path # <<"job.sh">>
         /\ \A k \in DOMAIN Work(calc.matches) :
              Work(calc.matches)[k].path = e.path =>
                /\ Work(calc.matches)[k].ftype # "l"
                /\ e.key = NULL <=> Work(calc.matches)[k].ftype = "d"

\* C17 witness: a retrieval that matched job.sh, a directory, a symlink and
\* a file has succeeded.
C17_Witness ==
  /\ proc.step = "finalised"
  /\ \A t \in {"d", "l", "-"} : \E k \in DOMAIN Work(calc.matches) : Work(calc.matches)[k].ftype = t
  /\ \E k \in DOMAIN Work(calc.matches) : Work(calc.matches)[k].path = <<"job.sh">>
  /\ \E e \in proc.retrieved_paths : e.key = NULL
  /\ \E e \in proc.retrieved_paths : e.key # NULL

\* The SHA-256 the remote computes for the file at `path`.
RemoteSums(path) ==
  {Work(calc.matches)[k].sum :
     k \in {i \in DOMAIN Work(calc.matches) : Work(calc.matches)[i].path = path}}

\* C18: every non-null key recorded by the retrieval, in the local map and in
\* retrieved_paths, is the remote checksum of the file at that path and a key
\* of the object store; and once a download has delivered bytes whose hash
\* differs from the remote checksum the process is excepted at step
\* retrieving with the checksum error, the file is not in the local map and
\* retrieved_paths has not been set.
C18_KeysAreChecksums ==
  /\ \A e \in xpaths \cup proc.retrieved_paths :
       e.key # NULL => (e.key[1] \in ostore /\ e.key[1] \in RemoteSums(e.path))
  /\ "sha-bad" \in ostore =>
       /\ xpc = "done"
       /\ proc.state = "excepted"
       /\ proc.step = "retrieving"
       /\ proc.exception = Some("RuntimeError: checksum mismatch for downloaded file")
       /\ proc.retrieved_paths = {}
       /\ \A e \in xpaths : e.path # Work(calc.matches)[xi].path

\* C18 witness: a file was recorded under its checksum, and the download of
\* the next one delivered other bytes.
C18_Witness ==
  /\ "sha-bad" \in ostore
  /\ proc.state = "excepted"
  /\ \E e \in xpaths : e.key # NULL

\* ------------------------------------------------------- object_store.py
\* One client calling an object store: adds, then reads of what it holds.

\* Adds explored in one run.
MaxAdds == 2

\* Contents given to the store (bytes 1 and 2): empty, one byte, and two
\* contents with the same bytes in a different order.
Contents == {<<>>, <<1>>, <<1, 2>>, <<2, 1>>}

\* `chunks` of add_from_io: read all (negative), nothing, less than, as much
\* as and more than the content (the default, COPY_BUFSIZE, is more).
ChunkSizes == {-1, 0, 1, 2}

\* hashlib.sha256(...).hexdigest(): a number that no two byte sequences share.
RECURSIVE Sha256(_)
Sha256(B) ==
  IF B = <<>> THEN 1 ELSE 3 * Sha256(SubSeq(B, 1, Len(B) - 1)) + B[Len(B)]

\* The keys of the contents.
Keys == {Sha256(B) : B \in Contents}

\* obj.read(n) on what is left of a stream: all of it for a negative n, else
\* at most n bytes.
Read(rest, n) ==
  IF n < 0 \/ n >= Len(rest) THEN rest ELSE SubSeq(rest, 1, n)

\* What is left of the stream after the read of `chunk`.
Rest(rest, chunk) == SubSeq(rest, Len(chunk) + 1, Len(rest))

\* __contains__
Contains(fs, key) == key \in DOMAIN fs

\* count()
Count(fs) == Cardinality(DOMAIN fs)

\* A write that is lost.
StoredNowhere(fs, key, B) == fs

\* self._store[sha256] = obj; path.write_bytes(obj); os.rename(temp, path)
Stored(fs, key, B) == (key :> B) @@ fs

\* Path(temp.name).unlink(), and the temp file gone after os.rename.
Unlinked(fs, name) == [n \in DOMAIN fs \ {name} |-> fs[n]]

\* A call that has returned or raised.
Result(op, obj, chunks, raised, ret) ==
  [op |-> op, obj |-> obj, chunks |-> chunks, raised |-> raised, ret |-> ret]

\* An empty store of either implementation.
StoreInit ==
  /\ EngineIdle
  /\ XferIdle
  /\ DiskIdle
  /\ DbIdle
  /\ FilterIdle
  /\ PairIdle
  /\ impl \in {"memory", "file"}
  /\ files = <<>>
  /\ temps = <<>>
  /\ call = Result("none", <<>>, 0, "", 0)
  /\ spc = "idle"
  /\ stream = <<>>
  /\ hasher = <<>>
  /\ last = Result("none", <<>>, 0, "", 0)
  /\ before = <<>>
  /\ added = {}
  /\ nadds = 0

\* An add returns the key (it is the add number n of the run).
Return(op, B, chunks, key) ==
  /\ last' = Result(op, B, chunks, "", key)
  /\ added' = added \cup {[op |-> op, obj |-> B, chunks |-> chunks, key |-> key,
                          n |-> IF spc = "idle" THEN nadds + 1 ELSE nadds]}
  /\ spc' = "idle"

\* An add is called.
Enter(op, B, chunks) ==
  /\ spc = "idle" /\ nadds < MaxAdds
  /\ nadds' = nadds + 1
  /\ before' = files
  /\ call' = Result(op, B, chunks, "", 0)

\* add_from_bytes(obj). InMemoryObjectStore (lines 202-206): the content is
\* put in the dict unless the key is there. FileObjectStore (229-234): the key
\* is returned when the path exists, else write_bytes follows.
AddFromBytes(B) ==
  /\ Enter("add_from_bytes", B, 0)
  /\ LET key == Sha256(B) IN
     IF impl = "memory"
     THEN /\ files' = IF Contains(files, key) THEN files ELSE Stored(files, key, B)
          /\ Return("add_from_bytes", B, 0, key)
     ELSE IF Contains(files, key)
     THEN /\ Return("add_from_bytes", B, 0, key)
          /\ UNCHANGED files
     ELSE /\ spc' = "write_open"
          /\ UNCHANGED <<files, last, added>>
  /\ UNCHANGED <<impl, temps, stream, hasher>>
  /\ UNCHANGED notStore

\* FileObjectStore.add_from_bytes, path.write_bytes(obj): the file is opened
\* for writing, which creates it empty.
WriteOpen ==
  /\ spc = "write_open"
  /\ files' = Stored(files, Sha256(call.obj), <<>>)
  /\ spc' = "write_data"
  /\ UNCHANGED <<impl, temps, call, stream, hasher, last, before, added, nadds>>
  /\ UNCHANGED notStore

\* FileObjectStore.add_from_bytes, path.write_bytes(obj): the bytes are
\* written and the file closed; the key is returned.
WriteData ==
  /\ spc = "write_data"
  /\ files' = Stored(files, Sha256(call.obj), call.obj)
  /\ Return("add_from_bytes", call.obj, 0, Sha256(call.obj))
  /\ UNCHANGED <<impl, temps, call, stream, hasher, before, nadds>>
  /\ UNCHANGED notStore

\* add_from_io(obj, chunks=...). InMemoryObjectStore (199-200):
\* add_from_bytes(obj.read()). FileObjectStore (252-253): a hasher and a
\* temporary file are created.
AddFromIo(B, chunks) ==
  /\ Enter("add_from_io", B, chunks)
  /\ IF impl = "memory"
     THEN LET all == Read(B, -1) IN
          /\ files' = IF Contains(files, Sha256(all)) THEN files
                      ELSE Stored(files, Sha256(all), all)
          /\ Return("add_from_io", B, chunks, Sha256(all))
          /\ UNCHANGED <<temps, stream, hasher>>
     ELSE /\ temps' = Stored(temps, "tmp", <<>>)
          /\ stream' = B
          /\ hasher' = <<>>
          /\ spc' = "read"
          /\ UNCHANGED <<files, last, added>>
  /\ UNCHANGED impl
  /\ UNCHANGED notStore

\* FileObjectStore.add_from_io lines 254-259: one turn of the loop.
ReadChunk ==
  /\ spc = "read"
  /\ LET chunk == Read(stream, call.chunks) IN
     IF chunk = <<>>
     THEN /\ spc' = "publish"
          /\ UNCHANGED <<stream, hasher, temps>>
     ELSE /\ hasher' = hasher \o chunk
          /\ temps' = [temps EXCEPT !["tmp"] = @ \o chunk]
          /\ stream' = Rest(stream, chunk)
          /\ UNCHANGED spc
  /\ UNCHANGED <<impl, files, call, last, before, added, nadds>>
  /\ UNCHANGED notStore

\* FileObjectStore.add_from_io lines 261-269: the temporary file is removed
\* when the path exists, else renamed to it; the key is returned.
Publish ==
  /\ spc = "publish"
  /\ LET key == Sha256(hasher) IN
     /\ files' = IF Contains(files, key) THEN files ELSE Stored(files, key, temps["tmp"])
     /\ temps' = Unlinked(temps, "tmp")
     /\ Return("add_from_io", call.obj, call.chunks, key)
  /\ UNCHANGED <<impl, call, stream, hasher, before, nadds>>
  /\ UNCHANGED notStore

\* open(sha256) read to the end: the content, or KeyError.
Open(key) ==
  /\ spc = "idle"
  /\ last' = IF Contains(files, key) THEN Result("open", key, 0, "", files[key])
             ELSE Result("open", key, 0, "KeyError", <<>>)
  /\ UNCHANGED <<impl, files, temps, call, spc, stream, hasher, before, added, nadds>>
  /\ UNCHANGED notStore

\* get_size(sha256): len of the stored bytes / st_size of the file, or
\* KeyError.
StatSize(key) ==
  /\ spc = "idle"
  /\ last' = IF Contains(files, key) THEN Result("get_size", key, 0, "", Len(files[key]))
             ELSE Result("get_size", key, 0, "KeyError", 0)
  /\ UNCHANGED <<impl, files, temps, call, spc, stream, hasher, before, added, nadds>>
  /\ UNCHANGED notStore

StoreNext ==
  \/ \E B \in Contents : AddFromBytes(B)
  \/ WriteOpen
  \/ WriteData
  \/ \E B \in Contents, chunks \in ChunkSizes : AddFromIo(B, chunks)
  \/ ReadChunk
  \/ Publish
  \/ \E key \in Keys : Open(key)
  \/ \E key \in Keys : StatSize(key)

StoreSpec == StoreInit /\ [][StoreNext]_vars

\* ---------------------------------------------------- claims: object store
\* C19: when add_from_bytes(B) has returned, on either implementation, it has
\* returned the SHA-256 key of B and the store contains that key; and when an
\* earlier add_from_bytes of the same content had returned, it had returned
\* the same key, and count() and the stored contents are what they were when
\* the second add was called.
C19_AddFromBytes ==
  (spc = "idle" /\ last.op = "add_from_bytes") =>
    /\ last.raised = ""
    /\ last.ret = Sha256(last.obj)
    /\ Contains(files, last.ret)
    /\ files[last.ret] = last.obj
    /\ \A a \in added :
         (a.op = "add_from_bytes" /\ a.obj = last.obj /\ a.n < nadds) =>
           /\ a.key = last.ret
           /\ Count(files) = Count(before)
           /\ files = before

\* C19 witness: the on-disk store has returned from a second add_from_bytes of
\* a non-empty content.
C19_Witness ==
  /\ impl = "file" /\ spc = "idle"
  /\ last.op = "add_from_bytes" /\ last.obj # <<>>
  /\ \E a \in added : a.op = "add_from_bytes" /\ a.obj = last.obj /\ a.n < nadds

\* C20: on either implementation, once an add (add_from_bytes, or add_from_io
\* with any chunk size) of a content B has returned a key, open of that key
\* reads exactly B and get_size of that key is the length of B.
C20_RoundTrip ==
  \A a \in added :
    /\ (spc = "idle" /\ last.op = "open" /\ last.obj = a.key) =>
         (last.raised = "" /\ last.ret = a.obj)
    /\ (spc = "idle" /\ last.op = "get_size" /\ last.obj = a.key) =>
         (last.raised = "" /\ last.ret = Len(a.obj))

\* --------------------------------------- object_store.py: FileObjectStore
\* Two tasks (threads or processes) on one on-disk store; each makes one
\* call, step by step; a write may fail and a task may be killed.
DTasks == {1, 2}

\* Sizes of the pieces the body of a writer context writes: everything at
\* once, or byte by byte.
WriterChunks == {-1, 1}

\* A task that has not called yet.
IdleTask ==
  [op |-> "none", obj |-> <<>>, chunks |-> 0, pc |-> "idle", rest |-> <<>>,
   hasher |-> <<>>, ret |-> 0, raised |-> ""]

\* tempfile.NamedTemporaryFile(...).name: a name no other task has.
Tmp(t) == t

\* An empty on-disk store and no temporary file.
DiskInit ==
  /\ EngineIdle
  /\ XferIdle
  /\ StoreIdle
  /\ DbIdle
  /\ FilterIdle
  /\ PairIdle
  /\ root = <<>>
  /\ tmpdir = <<>>
  /\ task = [t \in DTasks |-> IdleTask]

At(t, l) == task[t].pc = l
Upd(t, r) == task' = [task EXCEPT ![t] = r]

\* The call returns the key.
Returned(r, key) == [r EXCEPT !.pc = "returned", !.ret = key]

\* The call raises.
Raised(r, exc) == [r EXCEPT !.pc = "raised", !.raised = exc]

\* FileObjectStore.add_from_bytes lines 230-234: the key is returned when the
\* path exists.
FAddFromBytes(t, B) ==
  /\ At(t, "idle")
  /\ LET r == [IdleTask EXCEPT !.op = "add_from_bytes", !.obj = B] IN
     IF Contains(root, Sha256(B))
     THEN Upd(t, Returned(r, Sha256(B)))
     ELSE Upd(t, [r EXCEPT !.pc = "write_open"])
  /\ UNCHANGED <<root, tmpdir>>
  /\ UNCHANGED notDisk

\* path.write_bytes(obj), line 237: the file at root/<key> is opened for
\* writing, which creates or empties it; or the open fails.
FWriteOpen(t) ==
  /\ At(t, "write_open")
  /\ \/ /\ root' = Stored(root, Sha256(task[t].obj), <<>>)
        /\ Upd(t, [task[t] EXCEPT !.pc = "write_data"])
     \/ /\ Upd(t, [task[t] EXCEPT !.pc = "write_failed"])
        /\ UNCHANGED root
  /\ UNCHANGED tmpdir
  /\ UNCHANGED notDisk

\* path.write_bytes(obj), line 237: the bytes are written and the key
\* returned; or the write fails after some of them.
FWriteData(t) ==
  /\ At(t, "write_data")
  /\ \/ /\ root' = Stored(root, Sha256(task[t].obj), task[t].obj)
        /\ Upd(t, Returned(task[t], Sha256(task[t].obj)))
     \/ \E n \in 0..(Len(task[t].obj) - 1) :
          /\ root' = Stored(root, Sha256(task[t].obj), SubSeq(task[t].obj, 1, n))
          /\ Upd(t, [task[t] EXCEPT !.pc = "write_failed"])
  /\ UNCHANGED tmpdir
  /\ UNCHANGED notDisk

\* add_from_bytes lines 238-241: `except Exception`: the path is unlinked if
\* it exists, and the exception raised again.
FWriteFailed(t) ==
  /\ At(t, "write_failed")
  /\ root' = IF Contains(root, Sha256(task[t].obj))
             THEN Unlinked(root, Sha256(task[t].obj)) ELSE root
  /\ Upd(t, Raised(task[t], "OSError"))
  /\ UNCHANGED tmpdir
  /\ UNCHANGED notDisk

\* FileObjectStore.add_from_io lines 252-253: a hasher and a temporary file
\* (delete=False) are created.
FAddFromIo(t, B, chunks) ==
  /\ At(t, "idle")
  /\ tmpdir' = Stored(tmpdir, Tmp(t), <<>>)
  /\ Upd(t, [IdleTask EXCEPT !.op = "add_from_io", !.obj = B, !.chunks = chunks,
                             !.rest = B, !.pc = "read"])
  /\ UNCHANGED root
  /\ UNCHANGED notDisk

\* add_from_io lines 254-259: one turn of the loop; or obj.read raises, and
\* the `with` closes the temporary file.
FReadChunk(t) ==
  /\ At(t, "read")
  /\ LET chunk == Read(task[t].rest, task[t].chunks) IN
     \/ /\ chunk = <<>>
        /\ Upd(t, [task[t] EXCEPT !.pc = "publish"])
        /\ UNCHANGED tmpdir
     \/ /\ chunk # <<>>
        /\ Upd(t, [task[t] EXCEPT !.hasher = @ \o chunk, !.rest = Rest(@, chunk)])
        /\ tmpdir' = [tmpdir EXCEPT ![Tmp(t)] = @ \o chunk]
     \/ /\ Upd(t, Raised(task[t], "IOError"))
        /\ UNCHANGED tmpdir
  /\ UNCHANGED root
  /\ UNCHANGED notDisk

\* add_from_io lines 261-264: hexdigest, and the test path.exists().
FPublishTest(t) ==
  /\ At(t, "publish")
  /\ LET key == Sha256(task[t].hasher) IN
     Upd(t, [task[t] EXCEPT !.ret = key,
                            !.pc = IF Contains(root, key) THEN "unlink" ELSE "rename"])
  /\ UNCHANGED <<root, tmpdir>>
  /\ UNCHANGED notDisk

\* add_from_io lines 265-266: the temporary file is unlinked.
FUnlinkTemp(t) ==
  /\ At(t, "unlink")
  /\ tmpdir' = Unlinked(tmpdir, Tmp(t))
  /\ Upd(t, Returned(task[t], task[t].ret))
  /\ UNCHANGED root
  /\ UNCHANGED notDisk

\* add_from_io lines 268-269: os.rename(temp.name, path); a file that is at
\* the path by now is replaced (POSIX rename).
FRename(t) ==
  /\ At(t, "rename")
  /\ root' = Stored(root, task[t].ret, tmpdir[Tmp(t)])
  /\ tmpdir' = Unlinked(tmpdir, Tmp(t))
  /\ Upd(t, Returned(task[t], task[t].ret))
  /\ UNCHANGED notDisk

\* FileObjectWriter.__enter__ (lines 307-315) on open_for_write(): a hasher
\* and a temporary file are created; the body is to write B.
FWriterEnter(t, B, chunks) ==
  /\ At(t, "idle")
  /\ tmpdir' = Stored(tmpdir, Tmp(t), <<>>)
  /\ Upd(t, [IdleTask EXCEPT !.op = "writer", !.obj = B, !.chunks = chunks,
                             !.rest = B, !.pc = "w_body"])
  /\ UNCHANGED root
  /\ UNCHANGED notDisk

\* FileObjectWriter.write (lines 317-321): the body writes its next piece.
FWriterWrite(t) ==
  /\ At(t, "w_body") /\ task[t].rest # <<>>
  /\ LET chunk == Read(task[t].rest, task[t].chunks) IN
     /\ Upd(t, [task[t] EXCEPT !.hasher = @ \o chunk, !.rest = Rest(@, chunk)])
     /\ tmpdir' = [tmpdir EXCEPT ![Tmp(t)] = @ \o chunk]
  /\ UNCHANGED root
  /\ UNCHANGED notDisk

\* FileObjectWriter.__exit__ lines 329-338: the body is over (exc_type None):
\* hexdigest and the test path.exists(); or the body has raised, and the try
\* block is skipped.
FWriterExit(t) ==
  /\ At(t, "w_body")
  /\ \/ /\ task[t].rest = <<>>
        /\ LET key == Sha256(task[t].hasher) IN
           Upd(t, [task[t] EXCEPT !.ret = key,
                                  !.pc = IF Contains(root, key) THEN "w_finally"
                                         ELSE "w_rename"])
     \/ Upd(t, [task[t] EXCEPT !.pc = "w_finally_exc"])
  /\ UNCHANGED <<root, tmpdir>>
  /\ UNCHANGED notDisk

\* FileObjectWriter.__exit__ lines 339-341: os.rename(self._file.name, path).
FWriterRename(t) ==
  /\ At(t, "w_rename")
  /\ root' = Stored(root, task[t].ret, tmpdir[Tmp(t)])
  /\ tmpdir' = Unlinked(tmpdir, Tmp(t))
  /\ Upd(t, [task[t] EXCEPT !.pc = "w_finally"])
  /\ UNCHANGED notDisk

\* FileObjectWriter.__exit__ lines 342-345, the finally block: the temporary
\* file is unlinked if it is still there, then `self._sha256 = sha256`, which
\* raises UnboundLocalError when the try block was skipped.
FWriterFinally(t) ==
  /\ task[t].pc \in {"w_finally", "w_finally_exc"}
  /\ tmpdir' = IF Contains(tmpdir, Tmp(t)) THEN Unlinked(tmpdir, Tmp(t)) ELSE tmpdir
  /\ IF At(t, "w_finally")
     THEN Upd(t, Returned(task[t], task[t].ret))
     ELSE Upd(t, Raised(task[t], "UnboundLocalError"))
  /\ UNCHANGED root
  /\ UNCHANGED notDisk

\* The task is killed in the middle of its call; the files stay as they are.
FCrash(t) ==
  /\ task[t].pc \notin {"idle", "returned", "raised", "crashed"}
  /\ Upd(t, [task[t] EXCEPT !.pc = "crashed"])
  /\ UNCHANGED <<root, tmpdir>>
  /\ UNCHANGED notDisk

DiskNext ==
  \/ \E t \in DTasks, B \in Contents : FAddFromBytes(t, B)
  \/ \E t \in DTasks : FWriteOpen(t)
  \/ \E t \in DTasks : FWriteData(t)
  \/ \E t \in DTasks : FWriteFailed(t)
  \/ \E t \in DTasks, B \in Contents, chunks \in ChunkSizes : FAddFromIo(t, B, chunks)
  \/ \E t \in DTasks : FReadChunk(t)
  \/ \E t \in DTasks : FPublishTest(t)
  \/ \E t \in DTasks : FUnlinkTemp(t)
  \/ \E t \in DTasks : FRename(t)
  \/ \E t \in DTasks, B \in Contents, chunks \in WriterChunks : FWriterEnter(t, B, chunks)
  \/ \E t \in DTasks : FWriterWrite(t)
  \/ \E t \in DTasks : FWriterExit(t)
  \/ \E t \in DTasks : FWriterRename(t)
  \/ \E t \in DTasks : FWriterFinally(t)
  \/ \E t \in DTasks : FCrash(t)

DiskSpec == DiskInit /\ [][DiskNext]_vars

\* ------------------------------------------- claims: the on-disk store
\* C21: at every point, also while a write is under way and after a task was
\* killed, every file of the store's directory holds content whose SHA-256 is
\* its name: contains(k) implies that root/k is complete.
C21_PublishedIsComplete ==
  \A k \in DOMAIN root : Sha256(root[k]) = k

\* The adds of the store (not the writer context).
AddOps == {"add_from_bytes", "add_from_io"}

\* C22: when two tasks have added the same content to the on-disk store and
\* both have returned, they have returned the same key, the store's directory
\* holds exactly one file, named by that key and holding the full content,
\* and no temporary file is left.
C22_ConcurrentAdds ==
  \A t, u \in DTasks :
    ( /\ t # u
      /\ At(t, "returned") /\ At(u, "returned")
      /\ task[t].op \in AddOps /\ task[u].op \in AddOps
      /\ task[t].obj = task[u].obj ) =>
        /\ task[t].ret = task[u].ret
        /\ DOMAIN root = {task[t].ret}
        /\ root[task[t].ret] = task[t].obj
        /\ tmpdir = <<>>

\* C23: when the write of a task has failed (the stream raised in add_from_io,
\* the write failed in add_from_bytes, the body of a writer context raised)
\* and no other task has called, the store's directory holds no file with
\* partial content and no temporary file is left.
C23_FailureCleansUp ==
  \A t \in DTasks :
    (At(t, "raised") /\ \A u \in DTasks \ {t} : At(u, "idle")) =>
      /\ tmpdir = <<>>
      /\ \A k \in DOMAIN root : Sha256(root[k]) = k

\* ------------------------------------------------------------ entity store
\* One Storage: a session on a database with foreign keys enforced, and the
\* object store whose keys the ingestion of a batch checks.  Every call is one
\* step; the session is followed between the calls: rows that a call left in
\* the open transaction are committed by the next commit and are lost by the
\* next rollback.

\* The highest primary key of a client; the other tables hold one row at a
\* time.
MaxPk == 2

Tables == {"client", "code", "calcjob", "process", "datanode"}
ClientLabels == {"a", "b"}
CodeLabels == {"x"}
UploadNames == {"f", "d"}
ProcessSteps == {"created", "uploading"}

Cap(cls) == IF cls = "client" THEN MaxPk ELSE 1

MaxOf(S) == CHOOSE x \in S : \A y \in S : y <= x
MinOf(S) == CHOOSE x \in S : \A y \in S : x <= y

EmptyDb ==
  [client |-> <<>>, code |-> <<>>, calcjob |-> <<>>, process |-> <<>>,
   datanode |-> <<>>]

\* The key that the database gives a row saved without one.
NextPk(rows) == IF DOMAIN rows = {} THEN 1 ELSE MaxOf(DOMAIN rows) + 1

\* The constraints of the schema: unique labels and foreign keys.
Valid(d) ==
  /\ \A p, q \in DOMAIN d.client :
       d.client[p].label = d.client[q].label => p = q
  /\ \A p, q \in DOMAIN d.code :
       (d.code[p].client_pk = d.code[q].client_pk
        /\ d.code[p].label = d.code[q].label) => p = q
  /\ \A p \in DOMAIN d.code : d.code[p].client_pk \in DOMAIN d.client
  /\ \A p \in DOMAIN d.calcjob : d.calcjob[p].code_pk \in DOMAIN d.code
  /\ \A p \in DOMAIN d.process : d.process[p].calcjob_pk \in DOMAIN d.calcjob
  /\ \A p \in DOMAIN d.datanode : d.datanode[p].creator_pk \in DOMAIN d.calcjob

ProcessesOf(d, cpk) == {p \in DOMAIN d.process : d.process[p].calcjob_pk = cpk}
NodesOf(d, cpk) == {p \in DOMAIN d.datanode : d.datanode[p].creator_pk = cpk}

\* A calcjob without a Process gets one when it is saved.
NoProcess(d, cpk) == d

WithProcess(d, cpk) ==
  IF ProcessesOf(d, cpk) # {} THEN d
  ELSE [d EXCEPT !.process =
          (NextPk(d.process) :>
             [calcjob_pk |-> cpk, step |-> "created", state |-> "playing"])
          @@ d.process]

\* The row is added to the table (flushed); a calcjob brings its Process.
Insert(d, cls, pk, row) ==
  LET new == [d EXCEPT ![cls] = (pk :> row) @@ d[cls]]
  IN IF cls = "calcjob" THEN WithProcess(new, pk) ELSE new

Without(rows, gone) == [p \in DOMAIN rows \ gone |-> rows[p]]

\* A row that another row refers to cannot be deleted.
ReferencedNever(d, cls, pk) == FALSE

Referenced(d, cls, pk) ==
  \/ cls = "client" /\ \E p \in DOMAIN d.code : d.code[p].client_pk = pk
  \/ cls = "code" /\ \E p \in DOMAIN d.calcjob : d.calcjob[p].code_pk = pk

\* Deleting a calcjob deletes its Process and its output DataNodes with it.
Delete(d, cls, pk) ==
  IF cls = "calcjob"
  THEN [d EXCEPT !.calcjob = Without(d.calcjob, {pk}),
                 !.process = Without(d.process, ProcessesOf(d, pk)),
                 !.datanode = Without(d.datanode, NodesOf(d, pk))]
  ELSE [d EXCEPT ![cls] = Without(d[cls], {pk})]

\* The caller holds no entity.
NoRef == [cls |-> "none", pk |-> 0, frozen |-> FALSE]

\* After a rollback or a delete, an entity whose row is gone is detached.
Refresh(h, d) ==
  IF h.cls # "none" /\ h.pk \in DOMAIN d[h.cls] THEN h ELSE NoRef

\* The entities that a caller builds and passes to save_row: pk 0 is no pk.
NewEntities ==
  [cls : {"client"}, pk : 0..Cap("code"), label : ClientLabels, parent : {0},
   frozen : {FALSE}]
  \cup [cls : {"code"}, pk : 0..Cap("code"), label : CodeLabels,
        parent : 1..Cap("client"), frozen : {FALSE}]
  \cup [cls : {"calcjob"}, pk : 0..Cap("calcjob"), label : {""},
        parent : 1..Cap("code"), frozen : {FALSE}]
  \cup [cls : {"datanode"}, pk : 0..Cap("datanode"), label : {""},
        parent : 1..Cap("calcjob"), frozen : {FALSE}]

RowOf(e) ==
  CASE e.cls = "client" -> [label |-> e.label]
    [] e.cls = "code" ->
         [label |-> e.label, client_pk |-> e.parent, upload_paths |-> <<>>]
    [] e.cls = "calcjob" -> [code_pk |-> e.parent, upload_paths |-> <<>>]
    [] e.cls = "datanode" -> [creator_pk |-> e.parent]

Did(r) == outcome' = r

DbInit ==
  /\ EngineIdle
  /\ XferIdle
  /\ StoreIdle
  /\ DiskIdle
  /\ FilterIdle
  /\ PairIdle
  /\ committed = EmptyDb
  /\ session = EmptyDb
  /\ held = NoRef
  /\ okeys = {"k1"}
  /\ outcome = [op |-> "none", exc |-> ""]

\* Storage.has_row as save_row asks it.
HasRow(cls, pk) == pk \in DOMAIN session[cls]

\* save_row(row) for an entity the caller built.
SaveRowAlways(e) == FALSE

SaveRowRejects(e) == e.frozen \/ (e.pk # 0 /\ HasRow(e.cls, e.pk))

SaveRow(e) ==
  LET pk == IF e.pk = 0 THEN NextPk(session[e.cls]) ELSE e.pk
      new == Insert(session, e.cls, pk, RowOf(e))
      r == [op |-> "save_row", cls |-> e.cls, frozen |-> e.frozen]
  IN
  /\ pk <= Cap(e.cls)
  /\ \A p \in DOMAIN new.process : p <= Cap("process")
  /\ IF SaveRowRejects(e)
     THEN /\ Did(r @@ [exc |-> "ValueError", ret_frozen |-> FALSE])
          /\ UNCHANGED <<committed, session, held>>
     ELSE IF Valid(new)
     THEN /\ session' = new
          /\ committed' = new
          /\ Did(r @@ [exc |-> "", ret_frozen |-> TRUE])
          /\ UNCHANGED held
     ELSE /\ session' = committed
          /\ held' = Refresh(held, committed)
          /\ Did(r @@ [exc |-> "IntegrityError", ret_frozen |-> FALSE])
          /\ UNCHANGED committed
  /\ UNCHANGED okeys
  /\ UNCHANGED notDb

\* save_row(row) for the entity the caller holds: it is frozen or it has the
\* pk of a stored row.
SaveHeld ==
  /\ held.cls # "none"
  /\ Did([op |-> "save_row", cls |-> held.cls, frozen |-> held.frozen,
          ret_frozen |-> FALSE,
          exc |-> IF SaveRowRejects(held) THEN "ValueError" ELSE ""])
  /\ UNCHANGED <<committed, session, held, okeys>>
  /\ UNCHANGED notDb

\* get_row(obj_cls, pk): the entity of the session, frozen.
GetRow(cls, pk) ==
  /\ IF pk \in DOMAIN session[cls]
     THEN /\ held' = [cls |-> cls, pk |-> pk, frozen |-> TRUE]
          /\ Did([op |-> "get_row", exc |-> ""])
     ELSE /\ Did([op |-> "get_row", exc |-> "KeyError"])
          /\ UNCHANGED held
  /\ UNCHANGED <<committed, session, okeys>>
  /\ UNCHANGED notDb

\* process._freeze(False)
Unfreeze ==
  /\ held.cls = "process" /\ held.frozen
  /\ held' = [held EXCEPT !.frozen = FALSE]
  /\ Did([op |-> "unfreeze", exc |-> ""])
  /\ UNCHANGED <<committed, session, okeys>>
  /\ UNCHANGED notDb

\* process.step = ...: the entity is the session's own, so the session sees
\* the new value at once and writes it with its next flush.
SetStep(step) ==
  /\ held.cls = "process" /\ ~held.frozen
  /\ session.process[held.pk].step # step
  /\ session' = [session EXCEPT !.process[held.pk].step = step]
  /\ Did([op |-> "set_step", exc |-> ""])
  /\ UNCHANGED <<committed, held, okeys>>
  /\ UNCHANGED notDb

\* _update_row(row) for the entity the caller holds.
UpdateRow ==
  /\ held.cls # "none"
  /\ committed' = session
  /\ Did([op |-> "_update_row", exc |-> ""])
  /\ UNCHANGED <<session, held, okeys>>
  /\ UNCHANGED notDb

Held == {"client", "process"}
Deletable == {"client", "code", "calcjob", "datanode"}

\* delete_row(obj) for the session's entity of a stored row.
DeleteRow(cls, pk) ==
  /\ pk \in DOMAIN session[cls]
  /\ LET gone == Delete(session, cls, pk)
         r == [op |-> "delete_row", cls |-> cls, pk |-> pk,
               cascade |-> Cardinality(DOMAIN session.process \ DOMAIN gone.process)
                           + Cardinality(DOMAIN session.datanode \ DOMAIN gone.datanode)
                           - (IF cls = "datanode" THEN 1 ELSE 0)]
     IN IF Referenced(session, cls, pk)
        THEN /\ session' = committed
             /\ held' = Refresh(held, committed)
             /\ Did(r @@ [exc |-> "UnDeletableError"])
             /\ UNCHANGED committed
        ELSE /\ session' = gone
             /\ committed' = session'
             /\ held' = Refresh(held, session')
             /\ Did(r @@ [exc |-> ""])
  /\ UNCHANGED okeys
  /\ UNCHANGED notDb

\* delete_row(obj) for an entity that was never saved.
DeleteUnsaved ==
  /\ Did([op |-> "delete_row", cls |-> "client", pk |-> 0, cascade |-> 0,
          exc |-> "ValueError"])
  /\ UNCHANGED <<committed, session, held, okeys>>
  /\ UNCHANGED notDb

\* The key of the file that an object of a batch names by its path.
ObjKey(label) == "k2"

\* The values of upload_paths in a batch: null, {label: X} or {key: X}.
ByLabel(x) == <<"label", x>>
ByKey(x) == <<"key", x>>

UploadDicts ==
  { <<>>,
    [n \in {"f"} |-> ByLabel("l1")],
    [n \in {"f"} |-> ByKey("k1")],
    [n \in {"f"} |-> ByKey("k9")],
    [n \in {"d"} |-> NULL],
    [n \in UploadNames |-> IF n = "f" THEN ByLabel("l1") ELSE NULL] }

\* Batches of labelled rows without upload paths.
PlainBatches ==
  [objects : {<<>>},
   clients : {<<>>, <<"a">>},
   codes : {<<>>} \cup
           {<<c>> : c \in [label : CodeLabels, client_label : ClientLabels,
                            upload_paths : {<<>>}]},
   calcjobs : {<<>>} \cup
              {<<j>> : j \in [code_label : {"x", "y"}, upload_paths : {<<>>}]}]

\* Those, and batches of one code or one calcjob with upload paths.
Batches ==
  PlainBatches
  \cup
  { b \in
      [objects : {<<>>, <<[label |-> "l1", kind |-> "path"]>>,
                  <<[label |-> "l1", kind |-> "content"]>>},
       clients : {<<>>},
       codes : {<<c>> : c \in [label : CodeLabels, client_label : {"a"},
                                upload_paths : UploadDicts \ {<<>>}]},
       calcjobs : {<<>>}] :
      b.objects # <<>> =>
        /\ "f" \in DOMAIN b.codes[1].upload_paths
        /\ b.codes[1].upload_paths["f"] = ByLabel("l1") }
  \cup
  [objects : {<<>>},
   clients : {<<>>},
   codes : {<<>>},
   calcjobs : {<<j>> : j \in [code_label : {"x"},
                              upload_paths : {[n \in {"d"} |-> NULL],
                                              [n \in {"f"} |-> ByKey("k1")]}]}]

\* The objects of the batch are added to the object store one by one; an
\* object given by its content is added with an argument that add_from_bytes
\* does not take.
RECURSIVE AddObjects(_, _)
AddObjects(st, objs) ==
  IF objs = <<>> \/ st.exc # "" THEN st
  ELSE LET o == Head(objs)
       IN IF o.kind = "content" THEN [st EXCEPT !.exc = "TypeError"]
          ELSE AddObjects([st EXCEPT !.keys = @ \cup {ObjKey(o.label)},
                                     !.l2k = (o.label :> ObjKey(o.label)) @@ @],
                          Tail(objs))

\* _convert_upload_paths: the entries of the item, rewritten to keys.
ConvertUploadPaths(keys, up, l2k) ==
  LET kept == {n \in DOMAIN up : up[n] # NULL}
      new == [n \in kept |->
                IF up[n][1] = "label" THEN Some(l2k[up[n][2]])
                ELSE Some(up[n][2])]
  IN IF \E n \in kept : up[n][1] = "label" /\ up[n][2] \notin DOMAIN l2k
     THEN [exc |-> "ValueError", up |-> <<>>]
     ELSE IF \E n \in kept : new[n][1] \notin keys
     THEN [exc |-> "KeyError", up |-> <<>>]
     ELSE [exc |-> "", up |-> new]

\* save_row inside the nested transaction: the row is flushed, and a row that
\* the database rejects makes the item invalid.
Flushed(st, cls, row) ==
  LET pk == NextPk(st.db[cls])
      new == Insert(st.db, cls, pk, row)
  IN IF pk > Cap(cls) \/ \E p \in DOMAIN new.process : p > Cap("process")
     THEN [st EXCEPT !.exc = "bound"]
     ELSE IF Valid(new)
     THEN [st EXCEPT !.db = new, !.pks[cls] = Append(@, pk)]
     ELSE [st EXCEPT !.exc = "ValueError"]

RECURSIVE AddClients(_, _)
AddClients(st, items) ==
  IF items = <<>> \/ st.exc # "" THEN st
  ELSE AddClients(Flushed(st, "client", [label |-> Head(items)]), Tail(items))

\* The row that a label names: the first one that the query returns.
PkOfLabel(rows, label) ==
  LET found == {p \in DOMAIN rows : rows[p].label = label}
  IN IF found = {} THEN 0 ELSE MinOf(found)

RECURSIVE AddCodes(_, _, _, _)
AddCodes(st, items, keys, l2k) ==
  IF items = <<>> \/ st.exc # "" THEN st
  ELSE LET c == Head(items)
           client_pk == PkOfLabel(st.db.client, c.client_label)
           conv == ConvertUploadPaths(keys, c.upload_paths, l2k)
       IN IF client_pk = 0 THEN [st EXCEPT !.exc = "ValueError"]
          ELSE IF conv.exc # "" THEN [st EXCEPT !.exc = conv.exc]
          ELSE AddCodes(Flushed(st, "code",
                                [label |-> c.label, client_pk |-> client_pk,
                                 upload_paths |-> conv.up]),
                        Tail(items), keys, l2k)

RECURSIVE AddCalcjobs(_, _, _, _)
AddCalcjobs(st, items, keys, l2k) ==
  IF items = <<>> \/ st.exc # "" THEN st
  ELSE LET j == Head(items)
           code_pk == PkOfLabel(st.db.code, j.code_label)
           conv == ConvertUploadPaths(keys, j.upload_paths, l2k)
       IN IF code_pk = 0 THEN [st EXCEPT !.exc = "ValueError"]
          ELSE IF conv.exc # "" THEN [st EXCEPT !.exc = conv.exc]
          ELSE AddCalcjobs(Flushed(st, "calcjob",
                                   [code_pk |-> code_pk,
                                    upload_paths |-> conv.up]),
                           Tail(items), keys, l2k)

\* Leaving the nested transaction with an exception rolls back to the
\* savepoint: the session is as it was when the block was entered.
NotRolledBack(sp, st) == st.db

RolledBack(sp, st) == sp

\* save_from_dict(data): the objects first, then the clients, the codes and the
\* calcjobs inside one nested transaction.  When the block ends well the
\* savepoint is released: the rows stay in the session's open transaction, and
\* they are already committed when the database had no transaction open before
\* the savepoint (releasing the outermost savepoint is a commit in SQLite).
SaveFromDict(data) ==
  LET o == AddObjects([keys |-> okeys, l2k |-> <<>>, exc |-> ""], data.objects)
      st0 == [db |-> session, exc |-> "",
              pks |-> [client |-> <<>>, code |-> <<>>, calcjob |-> <<>>]]
      st1 == AddClients(st0, data.clients)
      st2 == AddCodes(st1, data.codes, o.keys, o.l2k)
      st == AddCalcjobs(st2, data.calcjobs, o.keys, o.l2k)
      r == [op |-> "save_from_dict"]
  IN
  /\ okeys' = o.keys
  /\ IF o.exc # ""
     THEN /\ Did(r @@ [exc |-> o.exc, pks |-> st0.pks])
          /\ UNCHANGED <<committed, session>>
     ELSE /\ st.exc # "bound"
          /\ IF st.exc # ""
             THEN /\ Did(r @@ [exc |-> st.exc, pks |-> st.pks])
                  /\ session' = RolledBack(session, st)
                  /\ UNCHANGED committed
             ELSE /\ session' = st.db
                  /\ committed' \in {committed, st.db}
                  /\ Did(r @@ [exc |-> "", pks |-> st.pks])
  /\ UNCHANGED held
  /\ UNCHANGED notDb

DbNext ==
  \/ \E e \in NewEntities : SaveRow(e)
  \/ SaveHeld
  \/ \E cls \in Held, pk \in 1..MaxPk : GetRow(cls, pk)
  \/ Unfreeze
  \/ \E step \in ProcessSteps : SetStep(step)
  \/ UpdateRow
  \/ \E cls \in Deletable, pk \in 1..MaxPk : DeleteRow(cls, pk)
  \/ DeleteUnsaved
  \/ \E data \in PlainBatches : SaveFromDict(data)

DbSpec == DbInit /\ [][DbNext]_vars

\* The ingestion of batches alone, into stores that earlier calls filled.
ClientA == Insert(EmptyDb, "client", 1, [label |-> "a"])
ClientB == Insert(EmptyDb, "client", 1, [label |-> "b"])
ClientsAB == Insert(ClientA, "client", 2, [label |-> "b"])
CodeX ==
  Insert(ClientA, "code", 1,
         [label |-> "x", client_pk |-> 1, upload_paths |-> <<>>])
CalcjobX == Insert(CodeX, "calcjob", 1, [code_pk |-> 1, upload_paths |-> <<>>])

FilledStores == {EmptyDb, ClientA, ClientB, ClientsAB, CodeX, CalcjobX}

IngestInit ==
  /\ EngineIdle
  /\ XferIdle
  /\ StoreIdle
  /\ DiskIdle
  /\ FilterIdle
  /\ PairIdle
  /\ session \in FilledStores
  /\ committed = session
  /\ held = NoRef
  /\ okeys = {"k1"}
  /\ outcome = [op |-> "none", exc |-> ""]

IngestNext == \E data \in Batches : SaveFromDict(data)

IngestSpec == IngestInit /\ [][IngestNext]_vars

\* ----------------------------------------------------- entity store claims
LabelsOf(rows) == {rows[p].label : p \in DOMAIN rows}
ItemsOf(seq) == {seq[i] : i \in DOMAIN seq}

\* Some code of the batch names a client, or some calcjob a code, that is
\* neither stored nor in the batch.
Dangling(data) ==
  \/ \E c \in ItemsOf(data.codes) :
       c.client_label \notin LabelsOf(session.client) \cup ItemsOf(data.clients)
  \/ \E j \in ItemsOf(data.calcjobs) :
       j.code_label \notin
         LabelsOf(session.code) \cup {c.label : c \in ItemsOf(data.codes)}

\* C24: when save_from_dict is given a batch in which a code's client_label or
\* a calcjob's code_label names no row, it raises, and no client, code or
\* calcjob of the batch is in the entity store afterwards, the rows saved
\* before the failing item included.
C24_BatchAtomic ==
  [][outcome'.op = "save_from_dict" =>
       \A data \in Batches :
         (SaveFromDict(data) /\ Dangling(data)) =>
           /\ outcome'.exc # ""
           /\ session' = session
           /\ committed' = committed]_vars

\* A batch failed at a code after its client had been saved, and the client is
\* not in the store.
C24_Witness ==
  /\ outcome.op = "save_from_dict"
  /\ outcome.exc = "ValueError"
  /\ outcome.pks.client # <<>>
  /\ outcome.pks.code = <<>>
  /\ DOMAIN session.client = {}
  /\ DOMAIN committed.client = {}

\* What the claim has an entry of upload_paths stored as.
StoredAs(v) ==
  IF v = NULL THEN NULL
  ELSE IF v[1] = "label" THEN Some(ObjKey(v[2]))
  ELSE Some(v[2])

\* The upload_paths of the item are stored entry by entry.
StoredEntries(up, stored) ==
  /\ DOMAIN stored = DOMAIN up
  /\ \A n \in DOMAIN up : stored[n] = StoredAs(up[n])

NamesMissingKey(up, keys) ==
  \E n \in DOMAIN up :
    up[n] # NULL /\ up[n][1] = "key" /\ up[n][2] \notin keys

\* C25: save_from_dict stores, for every upload_paths entry of a code or a
\* calcjob, the resolved key for {label: X}, the key X for {key: X}, and null
\* under the same path for null; it rejects the batch when X of {key: X} is
\* not in the object store.
C25_UploadPathsStored ==
  [][outcome'.op = "save_from_dict" =>
       \A data \in Batches :
         SaveFromDict(data) =>
           /\ \A i \in DOMAIN data.codes :
                /\ NamesMissingKey(data.codes[i].upload_paths, okeys') =>
                     outcome'.exc # ""
                /\ outcome'.exc = "" =>
                     StoredEntries(
                       data.codes[i].upload_paths,
                       session'.code[outcome'.pks.code[i]].upload_paths)
           /\ \A i \in DOMAIN data.calcjobs :
                /\ NamesMissingKey(data.calcjobs[i].upload_paths, okeys') =>
                     outcome'.exc # ""
                /\ outcome'.exc = "" =>
                     StoredEntries(
                       data.calcjobs[i].upload_paths,
                       session'.calcjob[outcome'.pks.calcjob[i]].upload_paths)]_vars

\* The row of the entity is in the table, in the session and committed.
StoredRow(e, pk) ==
  /\ pk \in DOMAIN session'[e.cls] /\ session'[e.cls][pk] = RowOf(e)
  /\ pk \in DOMAIN committed'[e.cls] /\ committed'[e.cls][pk] = RowOf(e)

Refused(e) == e.frozen \/ (e.pk # 0 /\ e.pk \in DOMAIN session[e.cls])

SavedPk(e) == IF e.pk = 0 THEN NextPk(session[e.cls]) ELSE e.pk

\* C26 as stated: save_row raises ValueError and leaves the store unchanged
\* when the entity is frozen or its pk is the pk of a stored row of its class;
\* otherwise the row is stored and the returned entity is frozen.
C26_SaveRow ==
  [][outcome'.op = "save_row" =>
       /\ SaveHeld =>
            /\ outcome'.exc = "ValueError"
            /\ session' = session /\ committed' = committed
       /\ \A e \in NewEntities :
            SaveRow(e) =>
              IF Refused(e)
              THEN /\ outcome'.exc = "ValueError"
                   /\ session' = session /\ committed' = committed
              ELSE /\ outcome'.exc = ""
                   /\ StoredRow(e, SavedPk(e))
                   /\ outcome'.ret_frozen]_vars

\* C26 amended: a row that the database refuses (a label already taken, a
\* foreign key that names no row) is not stored either: the transaction is
\* rolled back and the database's error is raised.
C26_SaveRowUnlessRefused ==
  [][outcome'.op = "save_row" =>
       /\ SaveHeld =>
            /\ outcome'.exc = "ValueError"
            /\ session' = session /\ committed' = committed
       /\ \A e \in NewEntities :
            SaveRow(e) =>
              IF Refused(e)
              THEN /\ outcome'.exc = "ValueError"
                   /\ session' = session /\ committed' = committed
              ELSE IF Valid(Insert(session, e.cls, SavedPk(e), RowOf(e)))
              THEN /\ outcome'.exc = ""
                   /\ StoredRow(e, SavedPk(e))
                   /\ outcome'.ret_frozen
              ELSE /\ outcome'.exc = "IntegrityError"
                   /\ session' = committed /\ committed' = committed]_vars

\* save_row has refused a frozen entity.
C26_Witness ==
  /\ outcome.op = "save_row"
  /\ outcome.exc = "ValueError"
  /\ outcome.frozen

CodesOf(d, pk) == {c \in DOMAIN d.code : d.code[c].client_pk = pk}

Kept(old, new) ==
  \A p \in DOMAIN old.process \cap DOMAIN new.process :
    new.process[p].step = old.process[p].step

\* C29: a new attribute value set on an entity that get_row returned changes
\* neither what the store returns to later reads nor what the database holds,
\* unless _update_row (or save_row) is called for that entity; a write for
\* another entity does not persist it.
C29_MutationNeedsUpdate ==
  [][outcome'.op # "_update_row" =>
       /\ Kept(session, session')
       /\ Kept(committed, committed')]_vars


\* ------------------------------------------------- the invocation's limit
Playing(rows) == {p \in Procs : rows[p].state = "playing"}
HasTask == {p \in Procs : pc[p] # "idle"}
Least(a, b) == IF a < b THEN a ELSE b

WillCall(p) ==
  \/ pc[p] \in {"up_script", "up_post", "up_wait", "submit", "poll", "retrieve"}
  \/ pc[p] = "up_inputs" /\ idx[p] <= Len(Inputs(p))
  \/ /\ pc[p] = "re_file"
     /\ \E j \in idx[p]..Len(Outputs(p)) : Outputs(p)[j] \in {"small", "big"}

\* The actions of job p that call the facade.
Calls(p) ==
  \/ UpScript(p) \/ UpInput(p) \/ UpPost(p) \/ UpWait(p)
  \/ Submit(p) \/ Poll(p) \/ Retrieve(p) \/ ReFile(p)

\* C32: after every remote call of a task the coroutine gives up the event
\* loop before its next remote call.
C32_YieldAfterRemoteCall ==
  [][\A p \in Procs :
       pc[p] \notin {"idle", "step", "persist", "persist_exc", "finish", "done", "raised"}
       /\ Calls(p) => ~(cur' = p /\ WillCall(p)')
    ]_vars

\* ------------------------------------------------------------ _sql_parse.py
\* The filter strings of the command line, as the parser's tokens: the
\* comparisons (column, operator, literal) and the keywords that join them.
\* A label is the sequence of its characters.
MaxCmps == 3

Cmp(col, op, num, str, nums, strs) ==
  [col |-> col, op |-> op, num |-> num, str |-> str, nums |-> nums, strs |-> strs]

\* pk > 0, pk <= 2, label LIKE 'a%', label IN ('a', 'c'), label == 'c',
\* label NOT LIKE '_b', pk NOT IN (1, 5)
Comparisons ==
  { Cmp("pk", ">", 0, <<>>, {}, {}),
    Cmp("pk", "<=", 2, <<>>, {}, {}),
    Cmp("label", "LIKE", 0, <<"a", "%">>, {}, {}),
    Cmp("label", "IN", 0, <<>>, {}, {<<"a">>, <<"c">>}),
    Cmp("label", "==", 0, <<"c">>, {}, {}),
    Cmp("label", "NOT LIKE", 0, <<"_", "b">>, {}, {}),
    Cmp("pk", "NOT IN", 0, <<>>, {1, 5}, {}) }

\* A filter string: n comparisons joined by n - 1 keywords AND / OR; no
\* comparison at all is the empty string.
FilterStrings ==
  UNION { { [cmps |-> c, joins |-> j] :
              c \in [1..n -> Comparisons],
              j \in [1..(IF n = 0 THEN 0 ELSE n - 1) -> {"AND", "OR"}] } :
          n \in 0..MaxCmps }

\* The client tables queried: pk -> label.
ClientTables ==
  { (1 :> <<"a">>) @@ (2 :> <<"b">>) @@ (3 :> <<"c">>) @@ (4 :> <<"d">>) @@ (5 :> <<"e">>),
    (1 :> <<"a", "b">>) @@ (2 :> <<"c">>) @@ (4 :> <<"A">>) @@ (5 :> <<"b", "b">>) }

\* infixNotation (lines 154-192): AND is listed before OR and so binds
\* tighter. The comparisons of the string from the i-th on, added to the
\* groups `acc` that the ORs separate, each group a run joined by AND.
RECURSIVE Groups(_, _, _)
Groups(f, i, acc) ==
  IF i > Len(f.cmps) THEN acc
  ELSE IF i = 1 THEN Groups(f, 2, << <<f.cmps[1]>> >>)
  ELSE IF f.joins[i - 1] = "AND"
       THEN Groups(f, i + 1, [acc EXCEPT ![Len(acc)] = Append(@, f.cmps[i])])
       ELSE Groups(f, i + 1, Append(acc, <<f.cmps[i]>>))

\* An operand of the parsed list: a comparison is the list [{'col': ..}, op,
\* value]; a run of n comparisons joined by AND inside an OR is a nested list
\* of 2n - 1 elements whose first element is itself a list.
Leaf(c) == [size |-> 3, dict |-> TRUE, cmp |-> c]
Nested(g) == [size |-> 2 * Len(g) - 1, dict |-> FALSE, cmp |-> g[1]]

\* get_grammar_expr().parse_string(...).as_dict()["expr"]: the operands of the
\* outermost operator and the keywords between them. One level (all AND, or
\* all OR) gives a flat list; ANDs under an OR give nested operands.
ParseString(f) ==
  LET g == Groups(f, 1, <<>>) IN
  IF Len(g) = 1
  THEN [items |-> [i \in 1..Len(g[1]) |-> Leaf(g[1][i])],
        joins |-> [i \in 1..(Len(g[1]) - 1) |-> "AND"]]
  ELSE [items |-> [i \in 1..Len(g) |-> IF Len(g[i]) = 1 THEN Leaf(g[i][1]) ELSE Nested(g[i])],
        joins |-> [i \in 1..(Len(g) - 1) |-> "OR"]]

\* The loop of lines 358-448: comp = and_(comp, next_comp) or or_(comp,
\* next_comp) by the keyword before the operand, from the left.
RECURSIVE Fold(_, _)
Fold(parsed, i) ==
  IF i = 1 THEN parsed.items[1].cmp
  ELSE [op |-> parsed.joins[i - 1], l |-> Fold(parsed, i - 1), r |-> parsed.items[i].cmp]

\* filter_from_string: None for the empty string; FilterStringError for an
\* operand that is not a list of length 3 (line 359) or whose first element
\* is not a dict (line 364); otherwise the predicate.
FilterFromString(f) ==
  IF f.cmps = <<>> THEN [exc |-> "", none |-> TRUE, comp |-> <<>>]
  ELSE LET parsed == ParseString(f) IN
       IF \E i \in 1..Len(parsed.items) : parsed.items[i].size # 3 \/ ~parsed.items[i].dict
       THEN [exc |-> "FilterStringError", none |-> TRUE, comp |-> <<>>]
       ELSE [exc |-> "", none |-> FALSE, comp |-> Fold(parsed, Len(parsed.items))]

\* SQLite's LIKE: % matches any run of characters, _ one character, and
\* ASCII letters match without regard to case.
Lower(ch) == CASE ch = "A" -> "a" [] ch = "B" -> "b" [] OTHER -> ch
RECURSIVE Like(_, _)
Like(s, pat) ==
  IF pat = <<>> THEN s = <<>>
  ELSE IF Head(pat) = "%" THEN Like(s, Tail(pat)) \/ (s # <<>> /\ Like(Tail(s), pat))
  ELSE /\ s # <<>>
       /\ Head(pat) = "_" \/ Lower(Head(s)) = Lower(Head(pat))
       /\ Like(Tail(s), Tail(pat))

\* The comparisons of lines 404-423 on the row (pk, label).
Compare(pk, label, c) ==
  IF c.col = "pk"
  THEN CASE c.op = "==" -> pk = c.num
         [] c.op = "!=" -> pk # c.num
         [] c.op = ">" -> pk > c.num
         [] c.op = ">=" -> pk >= c.num
         [] c.op = "<" -> pk < c.num
         [] c.op = "<=" -> pk <= c.num
         [] c.op = "IN" -> pk \in c.nums
         [] c.op = "NOT IN" -> pk \notin c.nums
  ELSE CASE c.op = "==" -> label = c.str
         [] c.op = "!=" -> label # c.str
         [] c.op = "IN" -> label \in c.strs
         [] c.op = "NOT IN" -> label \notin c.strs
         [] c.op = "LIKE" -> Like(label, c.str)
         [] c.op = "NOT LIKE" -> ~Like(label, c.str)

\* The predicate on a row: and_ / or_ of the comparisons.
RECURSIVE Eval(_, _, _)
Eval(comp, pk, label) ==
  IF comp.op = "AND" THEN Eval(comp.l, pk, label) /\ Compare(pk, label, comp.r)
  ELSE IF comp.op = "OR" THEN Eval(comp.l, pk, label) \/ Compare(pk, label, comp.r)
  ELSE Compare(pk, label, comp)

\* The rows that the SELECT with the WHERE clause of the filter selects.
Selected(table, where) ==
  IF where.none THEN DOMAIN table
  ELSE {pk \in DOMAIN table : Eval(where.comp, pk, table[pk])}

\* ORDER BY pk.
RECURSIVE OrderByPk(_)
OrderByPk(S) ==
  IF S = {} THEN <<>>
  ELSE LET m == CHOOSE x \in S : \A y \in S : x <= y IN <<m>> \o OrderByPk(S \ {m})

FilterInit ==
  /\ ftable \in ClientTables
  /\ fout \in {[op |-> "none", f |-> f, exc |-> "", rows |-> <<>>, count |-> 0] :
                 f \in FilterStrings}
  /\ EngineIdle /\ XferIdle /\ StoreIdle /\ DiskIdle /\ DbIdle /\ PairIdle

\* cli.py: where_clause = filter_from_string(orm.Client, where), then
\* iter_rows(orm.Client, where=where_clause): the rows in pk order.
IterRowsFiltered(f) ==
  /\ f = fout.f
  /\ LET where == FilterFromString(f) IN
     fout' = [op |-> "iter_rows", f |-> f, exc |-> where.exc,
              rows |-> IF where.exc # "" THEN <<>> ELSE OrderByPk(Selected(ftable, where)),
              count |-> 0]
  /\ UNCHANGED ftable
  /\ UNCHANGED notFilter

\* cli.py: count_rows(orm.Client, where=where_clause).
CountRowsFiltered(f) ==
  /\ f = fout.f
  /\ LET where == FilterFromString(f) IN
     fout' = [op |-> "count_rows", f |-> f, exc |-> where.exc, rows |-> <<>>,
              count |-> IF where.exc # "" THEN 0 ELSE Cardinality(Selected(ftable, where))]
  /\ UNCHANGED ftable
  /\ UNCHANGED notFilter

FilterNext ==
  \/ IterRowsFiltered(fout.f)
  \/ CountRowsFiltered(fout.f)

FilterSpec == FilterInit /\ [][FilterNext]_vars

\* The rows that satisfy the condition of the string as SQL reads it: one of
\* the runs of comparisons between two ORs holds as a whole.
Satisfies(f, pk, label) ==
  \E i \in 1..Len(f.cmps) : \E k \in i..Len(f.cmps) :
    /\ i = 1 \/ f.joins[i - 1] = "OR"
    /\ k = Len(f.cmps) \/ f.joins[k] = "OR"
    /\ \A j \in i..(k - 1) : f.joins[j] = "AND"
    /\ \A j \in i..k : Compare(pk, label, f.cmps[j])

Matching(f) ==
  IF f.cmps = <<>> THEN DOMAIN ftable
  ELSE {pk \in DOMAIN ftable : Satisfies(f, pk, ftable[pk])}

\* C33: for a filter string of comparisons joined by AND / OR, iter_rows
\* returns exactly the rows that satisfy the combined condition, in ascending
\* pk order, and count_rows their number.
C33_FilterSelects ==
  /\ fout.op = "iter_rows" =>
       /\ fout.exc = ""
       /\ {fout.rows[i] : i \in 1..Len(fout.rows)} = Matching(fout.f)
       /\ \A i \in 1..Len(fout.rows) : \A j \in 1..Len(fout.rows) :
            i < j => fout.rows[i] < fout.rows[j]
  /\ fout.op = "count_rows" =>
       /\ fout.exc = ""
       /\ fout.count = Cardinality(Matching(fout.f))

\* ------------------------------------- object_store.py: the two stores alike
\* One client makes the same calls, one after the other, on an
\* InMemoryObjectStore and on a FileObjectStore, and on a writer of each
\* (open_for_write); what each call returns or raises is kept for both.
Impls == {"memory", "file"}

\* The most bytes written to one writer.
MaxWritten == 2

\* What is added, and the pieces that are written to a writer.
PairContents == {<<>>, <<1>>, <<1, 1>>}
Pieces == {<<1>>}
PairChunks == {-1, 0, 1}

\* No writer yet; and a writer as its __init__ leaves it. DefaultObjectWriter
\* (lines 153-159): _key None, _data b"", _open None. FileObjectWriter
\* (293-300): _key None, _open None, _hasher None, _file None, and no
\* attribute _sha256, which is what its `key` property reads.
NoWriter == [open |-> "absent", data |-> <<>>, file |-> NULL, haskey |-> FALSE, key |-> NULL]
NewWriter(i) ==
  [open |-> "none", data |-> <<>>, file |-> NULL, haskey |-> i = "memory", key |-> NULL]

\* What a call did: raised is "" when it returned.
Ret(x) == [raised |-> "", ret |-> Some(x)]
Exc(e) == [raised |-> e, ret |-> NULL]

PairInit ==
  /\ pstore = [i \in Impls |-> <<>>]
  /\ writer = [i \in Impls |-> NoWriter]
  /\ pobs = [op |-> "none", arg |-> <<>>, memory |-> Ret(0), file |-> Ret(0)]
  /\ EngineIdle /\ XferIdle /\ StoreIdle /\ DiskIdle /\ DbIdle /\ FilterIdle

\* The call `op` with `arg` returned or raised m on the in-memory store and f
\* on the on-disk one.
Observed(op, arg, m, f) == pobs' = [op |-> op, arg |-> arg, memory |-> m, file |-> f]

\* FileObjectStore.add_from_io lines 254-259: the chunks read until one is
\* empty, together.
RECURSIVE ReadAll(_, _, _)
ReadAll(rest, chunks, acc) ==
  LET chunk == Read(rest, chunks) IN
  IF chunk = <<>> THEN acc ELSE ReadAll(Rest(rest, chunk), chunks, acc \o chunk)

\* add_from_bytes of either store (lines 202-206, 229-242): the content is
\* stored under its key unless the key is there.
AddBytes(fs, B) == IF Contains(fs, Sha256(B)) THEN fs ELSE Stored(fs, Sha256(B), B)

\* add_from_bytes(B) on both.
PAddFromBytes(B) ==
  /\ pstore' = [i \in Impls |-> AddBytes(pstore[i], B)]
  /\ Observed("add_from_bytes", B, Ret(Sha256(B)), Ret(Sha256(B)))
  /\ UNCHANGED writer
  /\ UNCHANGED notPair

\* add_from_io(BytesIO(B), chunks=chunks) on both: the in-memory store adds
\* obj.read() (199-200); the on-disk store hashes and stores what its loop has
\* read (252-269).
PAddFromIo(B, chunks) ==
  /\ LET all == Read(B, -1)
         got == ReadAll(B, chunks, <<>>) IN
     /\ pstore' = [i \in Impls |-> IF i = "memory" THEN AddBytes(pstore[i], all)
                                   ELSE AddBytes(pstore[i], got)]
     /\ Observed("add_from_io", <<B, chunks>>, Ret(Sha256(all)), Ret(Sha256(got)))
  /\ UNCHANGED writer
  /\ UNCHANGED notPair

\* open_for_write() on both (lines 91-99, 288-289): a new writer of each.
POpenForWrite ==
  /\ writer' = [i \in Impls |-> NewWriter(i)]
  /\ Observed("open_for_write", <<>>, Ret("writer"), Ret("writer"))
  /\ UNCHANGED pstore
  /\ UNCHANGED notPair

\* __enter__ of a writer. Both raise ValueError when _open is False; the
\* default writer sets _open (165-169); the file writer returns at once when
\* it is open, else sets _open and makes a hasher and a temporary file
\* (306-314).
Entered(i, w) ==
  IF w.open = "false" THEN w
  ELSE IF i = "memory" THEN [w EXCEPT !.open = "true"]
  ELSE IF w.open = "true" THEN w
  ELSE [w EXCEPT !.open = "true", !.data = <<>>, !.file = Some(<<>>)]

EnterResult(w) == IF w.open = "false" THEN Exc("ValueError") ELSE Ret("writer")

PEnter ==
  /\ writer["memory"].open # "absent"
  /\ writer' = [i \in Impls |-> Entered(i, writer[i])]
  /\ Observed("enter", <<>>, EnterResult(writer["memory"]), EnterResult(writer["file"]))
  /\ UNCHANGED pstore
  /\ UNCHANGED notPair

\* write(piece). The default writer raises ValueError unless _open is True,
\* else appends to _data (182-185). The file writer asserts that _file and
\* _hasher are set (AssertionError; with assertions compiled out the call on
\* None raises AttributeError) and then updates the hasher and writes to the
\* file, whatever _open is (316-320).
PWrite(piece) ==
  /\ writer["memory"].open # "absent"
  /\ \A i \in Impls : Len(writer[i].data) < MaxWritten
  /\ \E e \in {"AssertionError", "AttributeError"} :
       LET m == writer["memory"]
           f == writer["file"] IN
       /\ writer' = [i \in Impls |->
                       IF i = "memory"
                       THEN IF m.open = "true" THEN [m EXCEPT !.data = @ \o piece] ELSE m
                       ELSE IF f.file = NULL THEN f
                            ELSE [f EXCEPT !.data = @ \o piece,
                                           !.file = Some(f.file[1] \o piece)]]
       /\ Observed("write", piece,
                   IF m.open = "true" THEN Ret(0) ELSE Exc("ValueError"),
                   IF f.file = NULL THEN Exc(e) ELSE Ret(0))
  /\ UNCHANGED pstore
  /\ UNCHANGED notPair

\* DefaultObjectWriter.__exit__ (171-180): _open = False; nothing more when
\* the body raised or when _data is empty; else the key of add_from_bytes.
DefaultExit(fs, w, exc) ==
  IF exc \/ w.data = <<>>
  THEN [store |-> fs, w |-> [w EXCEPT !.open = "false"], res |-> Ret(0)]
  ELSE [store |-> AddBytes(fs, w.data),
        w |-> [w EXCEPT !.open = "false", !.key = Some(Sha256(w.data))],
        res |-> Ret(0)]

\* FileObjectWriter.__exit__ (322-344): _open = False. Without an exception
\* the temporary file is renamed to the key's path unless that exists; the
\* finally block unlinks the temporary file if it is still there and sets
\* _sha256, _file and _hasher. With an exception the try block is skipped,
\* and `self._sha256 = sha256` in the finally block raises UnboundLocalError
\* before _file and _hasher are cleared.
FileExit(fs, w, exc) ==
  IF exc
  THEN [store |-> fs, w |-> [w EXCEPT !.open = "false"], res |-> Exc("UnboundLocalError")]
  ELSE LET key == Sha256(w.data) IN
       [store |-> IF Contains(fs, key) THEN fs ELSE Stored(fs, key, w.file[1]),
        w |-> [w EXCEPT !.open = "false", !.haskey = TRUE, !.key = Some(key),
                        !.file = NULL, !.data = <<>>],
        res |-> Ret(0)]

\* The `with` block of a writer ends, its body having raised or not.
PExit(exc) ==
  /\ \A i \in Impls : writer[i].open = "true"
  /\ LET m == DefaultExit(pstore["memory"], writer["memory"], exc)
         f == FileExit(pstore["file"], writer["file"], exc) IN
     /\ pstore' = [i \in Impls |-> IF i = "memory" THEN m.store ELSE f.store]
     /\ writer' = [i \in Impls |-> IF i = "memory" THEN m.w ELSE f.w]
     /\ Observed("exit", exc, m.res, f.res)
  /\ UNCHANGED notPair

\* The `key` property: _key of the default writer (161-163), _sha256 of the
\* file writer (302-304), an attribute that __exit__ creates.
KeyResult(w) == IF w.haskey THEN Ret(w.key) ELSE Exc("AttributeError")

PKey ==
  /\ writer["memory"].open # "absent"
  /\ Observed("key", <<>>, KeyResult(writer["memory"]), KeyResult(writer["file"]))
  /\ UNCHANGED <<pstore, writer>>
  /\ UNCHANGED notPair

\* get_size, open (read to the end), __contains__, count, keys.
Query(fs, op, key) ==
  CASE op = "contains" -> Ret(Contains(fs, key))
    [] op = "get_size" -> IF Contains(fs, key) THEN Ret(Len(fs[key])) ELSE Exc("KeyError")
    [] op = "open" -> IF Contains(fs, key) THEN Ret(fs[key]) ELSE Exc("KeyError")
    [] op = "count" -> Ret(Count(fs))
    [] op = "keys" -> Ret(DOMAIN fs)

PQuery(op, key) ==
  /\ Observed(op, key, Query(pstore["memory"], op, key), Query(pstore["file"], op, key))
  /\ UNCHANGED <<pstore, writer>>
  /\ UNCHANGED notPair

PairNext ==
  \/ \E B \in PairContents : PAddFromBytes(B)
  \/ \E B \in PairContents, chunks \in PairChunks : PAddFromIo(B, chunks)
  \/ POpenForWrite
  \/ PEnter
  \/ \E piece \in Pieces : PWrite(piece)
  \/ \E exc \in BOOLEAN : PExit(exc)
  \/ PKey
  \/ \E op \in {"contains", "get_size", "open"}, B \in PairContents : PQuery(op, Sha256(B))
  \/ \E op \in {"count", "keys"} : PQuery(op, 0)

PairSpec == PairInit /\ [][PairNext]_vars

\* ------------------------------------------------- claims: the two stores
\* C34: for the writer of either store: a context that exits with an
\* exception publishes nothing; one that exits without has the SHA-256 of all
\* the bytes written as its key, and the store holds them under it; __enter__
\* after the writer has closed raises ValueError; write outside the context
\* raises ValueError.
C34_WriterContext ==
  [][\A i \in Impls :
       /\ (pobs'.op = "exit" /\ pobs'.arg = TRUE) => pstore'[i] = pstore[i]
       /\ (pobs'.op = "exit" /\ pobs'.arg = FALSE) =>
            /\ writer'[i].haskey /\ writer'[i].key = Some(Sha256(writer[i].data))
            /\ Contains(pstore'[i], Sha256(writer[i].data))
            /\ pstore'[i][Sha256(writer[i].data)] = writer[i].data
       /\ (pobs'.op = "enter" /\ writer[i].open = "false") => pobs'[i].raised = "ValueError"
       /\ (pobs'.op = "write" /\ writer[i].open # "true") => pobs'[i].raised = "ValueError"
    ]_vars

\* C39: every call returns the same, or raises the same, on the in-memory
\* store as on the on-disk store.
C39_StoresEquivalent == pobs.memory = pobs.file

\* --------------------------------------------------- claims: the shared session
\* C35: while the tasks of an invocation run, the committed row of a process
\* changes only at an _update_row of that process's own task (after a step,
\* in the except branch, at the end): the write of one task commits nothing
\* that another task has changed in memory and not yet written.
C35_OwnWritesOnly ==
  [][\A q \in Procs :
       (engine = "running" /\ db'[q] # db[q]) =>
         (Persist(q) \/ PersistExc(q) \/ Finish(q))
    ]_vars

\* ------------------------------------------------------ claims: the job id
\* The steps that follow the submission.
AfterSubmit == {"running", "retrieving", "finalised"}

\* C36: whenever the committed row of a process is at step running,
\* retrieving or finalised, its job_id is the id that the (last) submit call
\* for the calcjob returned; and once the committed row is at one of these
\* steps, nothing changes its job_id, in memory or in the database.
C36_JobIdKept ==
  [][\A p \in Procs :
       /\ db'[p].step \in AfterSubmit =>
            /\ nsubmit'[p] > 0
            /\ db'[p].job_id = Some(JobId(p, nsubmit'[p]))
       /\ db[p].step \in AfterSubmit =>
            /\ db'[p].job_id = db[p].job_id
            /\ mem'[p].job_id = mem[p].job_id
    ]_vars

\* A process has been brought from created to finalised, its job submitted
\* twice (the engine was killed after the first submission), and the row
\* holds the id of the second.
C36_Witness ==
  \E p \in Procs :
    /\ db[p].step = "finalised" /\ nsubmit[p] = 2
    /\ db[p].job_id = Some(JobId(p, 2))

\* ------------------------------------------------ claims: a failed retrieval
\* The action of the retrieving step of job p raises in this transition.
RetrieveRaises(p) ==
  /\ pc[p] \in {"retrieve", "re_file"}
  /\ raisedAt'[p] # raisedAt[p] /\ raisedAt'[p] # NULL

\* C37: when the retrieving step raises, whatever it has downloaded so far,
\* retrieved_paths of the process is what it was and step stays retrieving, in
\* memory and in the row written next; no blob ever leaves the object store;
\* and a file is downloaded only when its checksum is not a key of the store,
\* so that a retry downloads none of the blobs added before.
C37_FailedRetrieval ==
  [][\A p \in Procs :
       /\ RetrieveRaises(p) =>
            /\ mem'[p].retrieved_paths = mem[p].retrieved_paths
            /\ mem'[p].retrieved_paths = db[p].retrieved_paths
            /\ mem'[p].step = "retrieving"
       /\ (pc[p] = "persist_exc" /\ mem[p].step = "retrieving" /\ PersistExc(p)) =>
            /\ db'[p].retrieved_paths = db[p].retrieved_paths
            /\ db'[p].step = "retrieving"
       /\ store \subseteq store'
       /\ (pc[p] = "re_file" /\ ReFile(p) /\ store' # store) =>
            Checksum(p, idx[p]) \notin store
    ]_vars

\* A retrieval has raised after a download: the blob is in the object store,
\* the local map holds its path, and the row written is excepted at step
\* retrieving with no retrieved path.
C37_Witness ==
  \E p \in Procs :
    /\ raisedAt[p] # NULL /\ raisedAt[p][1].step = "retrieving"
    /\ \E e \in paths[p] : e[2] # NULL /\ e[2][1] \in store
    /\ db[p].state = "excepted" /\ db[p].step = "retrieving"
    /\ db[p].retrieved_paths = {}

\* The rows that a call of save_from_dict reports as added.
AddedRows(pks) ==
  UNION {{<<cls, pks[cls][i]>> : i \in DOMAIN pks[cls]} :
           cls \in {"client", "code", "calcjob"}}

\* C38: when save_from_dict returns without an exception, every client, code
\* and calcjob that it added is committed, so that a process that opens the
\* same database afterwards sees it even when the first process makes no
\* further write.
C38_BatchCommitted ==
  [][(outcome'.op = "save_from_dict" /\ outcome'.exc = "") =>
       \A r \in AddedRows(outcome'.pks) :
         r[2] \in DOMAIN committed'[r[1]]]_vars

\* C40: once the uploading step has completed (the step is submitting), the
\* file job.sh of the remote job folder holds the rendered script, whatever
\* the upload_paths of the code and of the calcjob name, so the script that
\* is submitted is the rendered one.
C40_ScriptKept ==
  proc.step = "submitting" => remote[<<ScriptFilename>>] = "script"

=============================================================================
